---- MODULE Spec2Model ----
(***************************************************************************)
(* A model of the mpt-circuit state table (src/src/mpt_table.rs) and of    *)
(* the claim / hash-chain witness model (src/src/types.rs).                *)
(*                                                                         *)
(* Field elements of the table are modelled as integers: every value the   *)
(* model assigns is far below the field modulus, so a gate polynomial is   *)
(* zero in the field exactly when it is zero over the integers.            *)
(***************************************************************************)
EXTENDS Integers, Sequences, FiniteSets, TLC

VARIABLES
    entries,    \* MPTTable.entries
    rows,       \* MPTTable.rows
    tstate,     \* "constructed" | "loaded" | "aborted" (the assert of load)
    table,      \* the cells assigned by load, one record per row
    probe,      \* an arbitrary row assignment, against which the gates are evaluated
    verdict,    \* the gates' outcome on the probe row: <<>> before verification
    trace,      \* the SMTTrace handed to the claim model
    reqType,    \* the MPTProofType requested with the trace
    claim,      \* the result of Claim::from: <<>> before, "abort" or a Claim
    proof,      \* the result of Proof::from: <<>> before, "abort" or a Proof
    checked,    \* the outcome of Proof::check: <<>> before, else the list of assertions
    num,        \* the pure numeric functions applied to an input
    mpt         \* the rows of the Merkle sub-circuit the lookups search

vars == <<entries, rows, tstate, table, probe, verdict, trace, reqType, claim, proof, checked, num, mpt>>

---------------------------------------------------------------------------
(* Bounds of the model *)

MaxEntries == 2
MaxRows == 2
MaxCell == 2
MaxDepth == 2
Randomness == 2

---------------------------------------------------------------------------
(* Option<T>: None is the empty sequence, Some(v) the one-element sequence *)

None == <<>>
Some(v) == <<v>>
IsSome(o) == Len(o) = 1
IsNone(o) == Len(o) = 0
Unwrap(o) == o[1]

---------------------------------------------------------------------------
(* The state table: proof types and entries (mpt_table.rs) *)

NumProofSel == 7

NonceChanged == 1
BalanceChanged == 2
CodeHashExists == 3
AccountDoesNotExist == 4
AccountDestructed == 5
StorageChanged == 6
StorageDoesNotExist == 7

MPTProofType == NonceChanged .. StorageDoesNotExist

\* KeyValue::create_base((fst, snd)): the pair (limb_0, limb_1)
create_base(pair) == [limb_0 |-> pair[1], limb_1 |-> pair[2]]

KeyValueDefault == create_base(<<0, 0>>)

NumLimbs == 16

\* RepCfg::<16, 8>::le_value_to_limbs: the 16 little-endian bytes of a value
RECURSIVE le_value_to_limbs_n(_, _)
le_value_to_limbs_n(v, n) ==
    IF n = 0 THEN <<>> ELSE <<v % 256>> \o le_value_to_limbs_n(v \div 256, n - 1)

le_value_to_limbs(v) == le_value_to_limbs_n(v, NumLimbs)

\* the limbs load hands to a RepConfig: those of limb_0 chained with those of limb_1
rep_limbs(kv) == le_value_to_limbs(kv.limb_0) \o le_value_to_limbs(kv.limb_1)

\* sum of limbs[i] * r^i, evaluated by Horner's rule from the last limb down
RECURSIVE rlc(_, _)
rlc(limbs, r) ==
    IF Len(limbs) = 0 THEN 0 ELSE limbs[1] + r * rlc(Tail(limbs), r)

\* KeyValue::u8_rlc
u8_rlc(kv, r) == rlc(rep_limbs(kv), r)

unwrap_or_default_kv(o) == IF IsSome(o) THEN Unwrap(o) ELSE KeyValueDefault

\* Option<Account>.map(field).unwrap_or_default()
acc_field_or_default(o, f) == IF IsSome(o) THEN Unwrap(o)[f] ELSE 0

acc_codehash_or_default(o) ==
    IF IsSome(o) THEN create_base(Unwrap(o).codehash) ELSE KeyValueDefault

\* MPTEntry::from_op
from_op(proof_type, op, randomness) ==
    LET storage_key == unwrap_or_default_kv(op.store_key)
        old_value == CASE proof_type = CodeHashExists -> acc_codehash_or_default(op.account_before)
                       [] proof_type = StorageChanged -> unwrap_or_default_kv(op.store_before)
                       [] OTHER -> KeyValueDefault
        new_value == CASE proof_type = CodeHashExists -> acc_codehash_or_default(op.account_after)
                       [] proof_type = StorageChanged -> unwrap_or_default_kv(op.store_after)
                       [] OTHER -> KeyValueDefault
        old_value_f == CASE proof_type = NonceChanged -> acc_field_or_default(op.account_before, "nonce")
                         [] proof_type = BalanceChanged -> acc_field_or_default(op.account_before, "balance")
                         [] proof_type \in {StorageChanged, CodeHashExists} -> u8_rlc(old_value, randomness)
                         [] OTHER -> 0
        new_value_f == CASE proof_type = NonceChanged -> acc_field_or_default(op.account_after, "nonce")
                         [] proof_type = BalanceChanged -> acc_field_or_default(op.account_after, "balance")
                         [] proof_type \in {StorageChanged, CodeHashExists} -> u8_rlc(new_value, randomness)
                         [] OTHER -> 0
    IN  [ base |-> << proof_type,
                      op.address,
                      u8_rlc(storage_key, randomness),
                      old_value_f,
                      new_value_f,
                      op.account_root_before,
                      op.account_root >>,
          storage_key |-> storage_key,
          new_value |-> new_value,
          old_value |-> old_value ]

\* MPTEntry::mock_from_op
mock_from_op(op, randomness) ==
    IF op.state_trie
    THEN IF IsNone(op.store_after) /\ IsNone(op.store_before)
         THEN from_op(StorageDoesNotExist, op, randomness)
         ELSE from_op(StorageChanged, op, randomness)
    ELSE CASE IsSome(op.account_before) /\ IsSome(op.account_after) ->
                IF Unwrap(op.account_before).balance # Unwrap(op.account_after).balance
                THEN from_op(BalanceChanged, op, randomness)
                ELSE IF Unwrap(op.account_before).nonce # Unwrap(op.account_after).nonce
                     THEN from_op(NonceChanged, op, randomness)
                     ELSE from_op(CodeHashExists, op, randomness)
           [] IsNone(op.account_before) /\ IsSome(op.account_after) ->
                from_op(CodeHashExists, op, randomness)
           [] IsSome(op.account_before) /\ IsNone(op.account_after) ->
                from_op(AccountDestructed, op, randomness)
           [] OTHER -> from_op(AccountDoesNotExist, op, randomness)

---------------------------------------------------------------------------
(* MPTTable::load: the cells of one region (mpt_table.rs 465-598) *)

ZeroLimbs == [i \in 1 .. 2 * NumLimbs |-> 0]

\* PairRepConfig::assign: the pair's two halves go to rep_hi and rep_lo
pair_rep_assign(pair) == [rep_hi |-> pair[1], rep_lo |-> pair[2]]

\* PairRepConfig::flush
pair_rep_flush == [rep_hi |-> 0, rep_lo |-> 0]

\* the proof-type enabler of column `index` (0-based) for an entry
proof_sel_cell(index, entry) == IF index + 1 = entry.base[3] THEN 1 ELSE 0

\* the body of the first loop of load: the row assigned for one entry
load_entry_row(entry) ==
    [ sel |-> 1,
      proof_sel |-> [i \in 1 .. NumProofSel |-> proof_sel_cell(i - 1, entry)],
      address |-> entry.base[1],
      storage_key |-> entry.base[2],
      proof_type |-> entry.base[3],
      new_root |-> entry.base[4],
      old_root |-> entry.base[5],
      new_value |-> entry.base[6],
      old_value |-> entry.base[7],
      storage_key_2 |-> pair_rep_assign(<<entry.storage_key.limb_0, entry.storage_key.limb_1>>),
      new_value_2 |-> pair_rep_assign(<<entry.new_value.limb_0, entry.new_value.limb_1>>),
      old_value_2 |-> pair_rep_assign(<<entry.old_value.limb_0, entry.old_value.limb_1>>),
      key_rep |-> rep_limbs(entry.storage_key),
      new_val_rep |-> rep_limbs(entry.new_value),
      old_val_rep |-> rep_limbs(entry.old_value) ]

\* a flushed row whose proof_type cell keeps a value
load_flush_row_stale ==
    [ sel |-> 0,
      proof_sel |-> [i \in 1 .. NumProofSel |-> 0],
      address |-> 0,
      storage_key |-> 0,
      proof_type |-> 1,
      new_root |-> 0,
      old_root |-> 0,
      new_value |-> 0,
      old_value |-> 0,
      storage_key_2 |-> pair_rep_flush,
      new_value_2 |-> pair_rep_flush,
      old_value_2 |-> pair_rep_flush,
      key_rep |-> ZeroLimbs,
      new_val_rep |-> ZeroLimbs,
      old_val_rep |-> ZeroLimbs ]

\* the body of the second loop of load: a flushed row (the selector is not enabled)
load_flush_row ==
    [ sel |-> 0,
      proof_sel |-> [i \in 1 .. NumProofSel |-> 0],
      address |-> 0,
      storage_key |-> 0,
      proof_type |-> 0,
      new_root |-> 0,
      old_root |-> 0,
      new_value |-> 0,
      old_value |-> 0,
      storage_key_2 |-> pair_rep_flush,
      new_value_2 |-> pair_rep_flush,
      old_value_2 |-> pair_rep_flush,
      key_rep |-> ZeroLimbs,
      new_val_rep |-> ZeroLimbs,
      old_val_rep |-> ZeroLimbs ]

\* the region load assigns: offset 0 is row 1
load_region(es, n) ==
    [r \in 1 .. n |-> IF r <= Len(es) THEN load_entry_row(es[r]) ELSE load_flush_row]

---------------------------------------------------------------------------
(* The operations the table is fed with *)

Account(nonce, balance, codehash) ==
    [nonce |-> nonce, balance |-> balance, codehash |-> codehash]

AccountOp(address, before, after, key, sbefore, safter, trie, r0, r1) ==
    [ address |-> address,
      account_before |-> before,
      account_after |-> after,
      store_key |-> key,
      store_before |-> sbefore,
      store_after |-> safter,
      state_trie |-> trie,
      account_root_before |-> r0,
      account_root |-> r1 ]

AddrA == 170
AddrB == 187
RootR0 == 41
RootR1 == 42
KeyK == create_base(<<3, 5>>)

OpBalance ==
    AccountOp(AddrA, Some(Account(1, 100, <<0, 9>>)), Some(Account(1, 200, <<0, 9>>)),
              None, None, None, FALSE, RootR0, RootR1)
OpNonce ==
    AccountOp(AddrA, Some(Account(1, 100, <<0, 9>>)), Some(Account(2, 100, <<0, 9>>)),
              None, None, None, FALSE, RootR0, RootR1)
OpCreate ==
    AccountOp(AddrA, None, Some(Account(0, 0, <<2, 9>>)),
              None, None, None, FALSE, RootR0, RootR1)
OpDestroy ==
    AccountOp(AddrA, Some(Account(1, 100, <<0, 9>>)), None,
              None, None, None, FALSE, RootR0, RootR1)
OpAbsent ==
    AccountOp(AddrB, None, None, None, None, None, FALSE, RootR0, RootR0)
OpStorage ==
    AccountOp(AddrA, Some(Account(1, 100, <<0, 9>>)), Some(Account(1, 100, <<0, 9>>)),
              Some(KeyK), Some(create_base(<<0, 1>>)), Some(create_base(<<0, 10>>)),
              TRUE, RootR0, RootR1)
OpStorageAbsent ==
    AccountOp(AddrA, Some(Account(1, 100, <<0, 9>>)), Some(Account(1, 100, <<0, 9>>)),
              Some(KeyK), None, None, TRUE, RootR0, RootR0)

Ops == {OpBalance, OpNonce, OpCreate, OpDestroy, OpAbsent, OpStorage, OpStorageAbsent}

\* an entry written out field by field in the column order of load, as the
\* table's own test does (mpt_table.rs 652-691)
literal_entry(address, key, proof_type, new_root, old_root, new_value, old_value, kv, nv, ov) ==
    [ base |-> <<address, key, proof_type, new_root, old_root, new_value, old_value>>,
      storage_key |-> kv, new_value |-> nv, old_value |-> ov ]

TestEntry1 ==
    literal_entry(AddrA, 0, BalanceChanged, RootR1, RootR0, 200, 100,
                  KeyValueDefault, KeyValueDefault, KeyValueDefault)
TestEntry2 ==
    literal_entry(AddrA, u8_rlc(KeyK, Randomness), StorageChanged, RootR1, RootR0,
                  10, 1,
                  KeyK, create_base(<<0, 10>>), create_base(<<0, 1>>))
TestEntry3 ==
    literal_entry(AddrB, 0, AccountDoesNotExist, RootR0, RootR0, 0, 0,
                  KeyValueDefault, KeyValueDefault, KeyValueDefault)

TestEntries == {TestEntry1, TestEntry2, TestEntry3}

---------------------------------------------------------------------------
(* The table's life: construct, fill entries, load *)

IdleProbe == load_flush_row

TableIdle ==
    /\ entries = <<>>
    /\ rows = 1
    /\ tstate = "constructed"
    /\ table = <<>>

ClaimIdle ==
    /\ trace = <<>>
    /\ reqType = ""
    /\ claim = <<>>
    /\ proof = <<>>
    /\ checked = <<>>

\* MPTTable::construct
Init ==
    /\ entries = <<>>
    /\ rows \in 1 .. MaxRows
    /\ tstate = "constructed"
    /\ table = <<>>
    /\ probe = IdleProbe
    /\ verdict = <<>>
    /\ ClaimIdle
    /\ num = <<>>
    /\ mpt = <<>>

UnchangedRest == UNCHANGED <<probe, verdict, trace, reqType, claim, proof, checked, num, mpt>>

\* entries.push(MPTEntry::from_op(..))
PushFromOp ==
    /\ tstate = "constructed"
    /\ Len(entries) < MaxEntries
    /\ \E pt \in MPTProofType, op \in Ops :
          entries' = Append(entries, from_op(pt, op, Randomness))
    /\ UNCHANGED <<rows, tstate, table>>
    /\ UnchangedRest

\* entries.push(MPTEntry::mock_from_op(..))
PushMockFromOp ==
    /\ tstate = "constructed"
    /\ Len(entries) < MaxEntries
    /\ \E op \in Ops : entries' = Append(entries, mock_from_op(op, Randomness))
    /\ UNCHANGED <<rows, tstate, table>>
    /\ UnchangedRest

\* entries.append(..) of entries written out in column order
PushEntry ==
    /\ tstate = "constructed"
    /\ Len(entries) < MaxEntries
    /\ \E e \in TestEntries : entries' = Append(entries, e)
    /\ UNCHANGED <<rows, tstate, table>>
    /\ UnchangedRest

\* MPTTable::load without its assertion on the number of entries
Load_unchecked ==
    /\ tstate = "constructed"
    /\ table' = load_region(entries, rows)
    /\ tstate' = "loaded"
    /\ UNCHANGED <<entries, rows>>
    /\ UnchangedRest

\* MPTTable::load
Load ==
    /\ tstate = "constructed"
    /\ IF Len(entries) <= rows
       THEN /\ table' = load_region(entries, rows)
            /\ tstate' = "loaded"
       ELSE /\ table' = table
            /\ tstate' = "aborted"
    /\ UNCHANGED <<entries, rows>>
    /\ UnchangedRest

Next == PushFromOp \/ PushMockFromOp \/ PushEntry \/ Load

Spec == Init /\ [][Next]_vars

---------------------------------------------------------------------------
(* MPTTable::configure: the gates, as polynomials over the cells of one    *)
(* row; a gate holds on a row when each of its polynomials is zero there   *)

AllZero(polys) == \A i \in 1 .. Len(polys) : polys[i] = 0

\* RepConfig::bind_rlc_value: the bound value minus the limbs' random linear combination
bind_rlc_value(limbs, val, randomness) == val - rlc(limbs, randomness)

\* gate "bind reps" with the values enabled by the storage selectors only
bind_reps_gate_storage_only(row, randomness) ==
    LET enable_key_rep == row.proof_sel[6] + row.proof_sel[7]
        enable_val_rep == enable_key_rep
        key_val == enable_key_rep * row.storage_key
        new_val == enable_val_rep * row.new_value
        old_val == enable_val_rep * row.old_value
    IN  << row.sel * bind_rlc_value(row.key_rep, key_val, randomness),
           row.sel * bind_rlc_value(row.new_val_rep, new_val, randomness),
           row.sel * bind_rlc_value(row.old_val_rep, old_val, randomness) >>

\* gate "bind reps" (mpt_table.rs 203-218)
bind_reps_gate(row, randomness) ==
    LET enable_key_rep == row.proof_sel[6] + row.proof_sel[7]
        enable_val_rep == row.proof_sel[3] + enable_key_rep
        key_val == enable_key_rep * row.storage_key
        new_val == enable_val_rep * row.new_value
        old_val == enable_val_rep * row.old_value
    IN  << row.sel * bind_rlc_value(row.key_rep, key_val, randomness),
           row.sel * bind_rlc_value(row.new_val_rep, new_val, randomness),
           row.sel * bind_rlc_value(row.old_val_rep, old_val, randomness) >>

\* one "proof sel array" gate without the binding to proof_type
proof_sel_array_gate_unbound(row, index) ==
    LET col == row.proof_sel[index + 1]
    IN  << row.sel * col * (1 - col) >>

\* gate "proof sel array" for the column `index` (0-based) (mpt_table.rs 224-242)
proof_sel_array_gate(row, index) ==
    LET col == row.proof_sel[index + 1]
    IN  << row.sel * col * (1 - col),
           row.sel * col * ((index + 1) - row.proof_type) >>

RECURSIVE SumSeq(_)
SumSeq(s) == IF Len(s) = 0 THEN 0 ELSE s[1] + SumSeq(Tail(s))

\* gate "enabled sel is unique" (mpt_table.rs 244-255)
enabled_sel_is_unique_gate(row) ==
    LET total_enalbed == SumSeq(row.proof_sel)
    IN  << row.sel * total_enalbed * (1 - total_enalbed) >>

\* PairRepConfig::configure: each half of the pair is the little-endian value of its 16 limbs
pair_rep_gate(row, pair, limbs) ==
    << row.sel * (pair.rep_hi - rlc(SubSeq(limbs, 1, NumLimbs), 256)),
       row.sel * (pair.rep_lo - rlc(SubSeq(limbs, NumLimbs + 1, 2 * NumLimbs), 256)) >>

\* RangeCheckChip: every limb of a RepConfig is a byte
range_check_u8(limbs) == \A i \in 1 .. Len(limbs) : limbs[i] \in 0 .. 255

\* every gate MPTTable::configure creates, evaluated on one row
gates(row, randomness) ==
    [ bind_reps |-> AllZero(bind_reps_gate(row, randomness)),
      proof_sel_array |->
          \A index \in 0 .. NumProofSel - 1 : AllZero(proof_sel_array_gate(row, index)),
      enabled_sel_is_unique |-> AllZero(enabled_sel_is_unique_gate(row)),
      pair_rep |-> /\ AllZero(pair_rep_gate(row, row.storage_key_2, row.key_rep))
                   /\ AllZero(pair_rep_gate(row, row.new_value_2, row.new_val_rep))
                   /\ AllZero(pair_rep_gate(row, row.old_value_2, row.old_val_rep)),
      range_check |-> /\ range_check_u8(row.key_rep)
                      /\ range_check_u8(row.new_val_rep)
                      /\ range_check_u8(row.old_val_rep) ]

GatesHold(v) ==
    /\ v.bind_reps
    /\ v.proof_sel_array
    /\ v.enabled_sel_is_unique
    /\ v.pair_rep
    /\ v.range_check

---------------------------------------------------------------------------
(* The gates against arbitrary rows: whoever fills the table may assign    *)
(* any cells, and verification evaluates every gate on them                *)

CellValues == {0, 1, MaxCell}

ProbeRows ==
    { [ load_flush_row EXCEPT !.sel = s, !.proof_sel = ps, !.proof_type = pt,
                             !.old_root = RootR0, !.new_root = nr ] :
        s \in {0, 1},
        ps \in [1 .. NumProofSel -> CellValues],
        pt \in 0 .. NumProofSel + 1,
        nr \in {RootR0, RootR1} }

InitGates ==
    /\ TableIdle
    /\ probe \in ProbeRows
    /\ verdict = <<>>
    /\ ClaimIdle
    /\ num = <<>>
    /\ mpt = <<>>

\* the verification of one row: every gate is evaluated on it
VerifyRow ==
    /\ verdict = <<>>
    /\ verdict' = gates(probe, Randomness)
    /\ UNCHANGED <<entries, rows, tstate, table, probe, trace, reqType, claim, proof, checked, num, mpt>>

NextGates == VerifyRow

SpecGates == InitGates /\ [][NextGates]_vars

\* limbs of a value: all zero, or a one in the first or in the second limb
LimbSamples ==
    { [i \in 1 .. 2 * NumLimbs |-> IF i = k THEN 1 ELSE 0] : k \in 0 .. 2 }

\* the hi/lo pair PairRepConfig's gate derives from 32 limbs
pair_of(limbs) ==
    [ rep_hi |-> rlc(SubSeq(limbs, 1, NumLimbs), 256),
      rep_lo |-> rlc(SubSeq(limbs, NumLimbs + 1, 2 * NumLimbs), 256) ]

\* rows of every proof type (0: no selector set) with chosen scalars and limbs
RepProbeRows ==
    { [ load_flush_row EXCEPT
          !.sel = s, !.proof_type = k,
          !.proof_sel = [i \in 1 .. NumProofSel |-> IF i = k THEN 1 ELSE 0],
          !.storage_key = sc[1], !.new_value = sc[2], !.old_value = sc[3],
          !.key_rep = lb[1], !.new_val_rep = lb[2], !.old_val_rep = lb[3],
          !.storage_key_2 = pair_of(lb[1]), !.new_value_2 = pair_of(lb[2]),
          !.old_value_2 = pair_of(lb[3]) ] :
        s \in {0, 1},
        k \in 0 .. NumProofSel,
        sc \in [1 .. 3 -> {0, 1, Randomness}],
        lb \in [1 .. 3 -> LimbSamples] }

InitReps ==
    /\ TableIdle
    /\ probe \in RepProbeRows
    /\ verdict = <<>>
    /\ ClaimIdle
    /\ num = <<>>
    /\ mpt = <<>>

SpecReps == InitReps /\ [][NextGates]_vars

Verified == verdict # <<>>

ActiveSels(row) == {i \in 1 .. NumProofSel : row.proof_sel[i] = 1}

\* C2: in an enabled row on which every gate holds, each proof-type selector
\* is 0 or 1, at most one of them is 1, and an active selector i (0-based)
\* has proof_type = i + 1
C2_GatesForceOneHot ==
    (Verified /\ probe.sel = 1 /\ GatesHold(verdict)) =>
        /\ \A i \in 1 .. NumProofSel : probe.proof_sel[i] \in {0, 1}
        /\ Cardinality(ActiveSels(probe)) <= 1
        /\ \A i \in ActiveSels(probe) : probe.proof_type = i

\* an enabled row with one active selector passes every gate
C2_Witness ==
    /\ Verified
    /\ probe.sel = 1
    /\ GatesHold(verdict)
    /\ Cardinality(ActiveSels(probe)) = 1

\* C4: an enabled row on which every gate holds and whose AccountDoesNotExist
\* or StorageDoesNotExist selector is active has old_root = new_root
C4_NotExistRootsEqual ==
    (/\ Verified
     /\ probe.sel = 1
     /\ GatesHold(verdict)
     /\ (probe.proof_sel[AccountDoesNotExist] = 1 \/ probe.proof_sel[StorageDoesNotExist] = 1))
        => probe.old_root = probe.new_root

---------------------------------------------------------------------------
(* Unsigned integers of any width (u64, u128, U256, BigUint and the        *)
(* canonical value of a field element): the little-endian sequence of      *)
(* their bytes without leading zero bytes, so that equal numbers are equal *)
(* sequences and 2^64 or 2^128 are exact.  Field sums and products are the *)
(* integer ones: every value the model forms is below 2^248, hence below   *)
(* the modulus, and no reduction takes place.                              *)

RECURSIVE BNorm(_)
BNorm(b) ==
    IF Len(b) = 0 THEN b
    ELSE IF b[Len(b)] = 0 THEN BNorm(SubSeq(b, 1, Len(b) - 1)) ELSE b

RECURSIVE BAddC(_, _, _)
BAddC(a, b, carry) ==
    IF Len(a) = 0 /\ Len(b) = 0
    THEN IF carry = 0 THEN <<>> ELSE <<carry>>
    ELSE LET x == IF Len(a) = 0 THEN 0 ELSE a[1]
             y == IF Len(b) = 0 THEN 0 ELSE b[1]
             t == x + y + carry
         IN  <<t % 256>> \o BAddC(IF Len(a) = 0 THEN a ELSE Tail(a),
                                   IF Len(b) = 0 THEN b ELSE Tail(b),
                                   t \div 256)

BAdd(a, b) == BNorm(BAddC(a, b, 0))

\* the bytes of a sequence of column sums, least significant first: each sum
\* leaves its low byte and carries the rest
RECURSIVE Carry(_, _)
Carry(cols, carry) ==
    IF Len(cols) = 0
    THEN IF carry = 0 THEN <<>> ELSE <<carry % 256>> \o Carry(cols, carry \div 256)
    ELSE LET t == cols[1] + carry
         IN  <<t % 256>> \o Carry(Tail(cols), t \div 256)

\* sum of a[i] * b[k + 1 - i] over the i with both indices in range
RECURSIVE ColSum(_, _, _, _)
ColSum(a, b, k, i) ==
    IF i > Len(a) \/ i > k THEN 0
    ELSE (IF k + 1 - i <= Len(b) THEN a[i] * b[k + 1 - i] ELSE 0) + ColSum(a, b, k, i + 1)

\* schoolbook product: the column sums, then the carries
BMul(a, b) ==
    IF Len(a) = 0 \/ Len(b) = 0 THEN <<>>
    ELSE BNorm(Carry([k \in 1 .. Len(a) + Len(b) - 1 |-> ColSum(a, b, k, 1)], 0))

\* x << n for a whole number of bytes
Shl(x, n) == BNorm([i \in 1 .. n \div 8 |-> 0] \o x)

\* the n-byte little-endian form of x (x < 2^(8n))
LeBytes(x, n) == x \o [i \in 1 .. n - Len(x) |-> 0]

RECURSIVE Rev(_)
Rev(s) == IF Len(s) = 0 THEN s ELSE Rev(Tail(s)) \o <<s[1]>>

BOne == <<1>>
BZero == <<>>
is_zero(x) == Len(x) = 0

---------------------------------------------------------------------------
(* Field elements of the witness model: a canonical integer, or the output *)
(* of the 2-to-1 hash.  The hash is the crate's Hashable (Poseidon), used  *)
(* as an opaque compression function: it is modelled as the free pairing,  *)
(* so two digests are equal exactly when their inputs are.                 *)

FrN(x) == <<x>>
IsFrN(f) == Len(f) = 1
FrVal(f) == f[1]

\* hash (types.rs 756-758)
hash(x, y) == <<x, y>>

FrZero == FrN(BZero)
FrOne == FrN(BOne)

\* Fr::from(u64), Fr::from_u128
FrFrom(x) == FrN(x)

\* field sum and product of two canonical integers
FrAdd(a, b) == FrN(BAdd(FrVal(a), FrVal(b)))
FrMul(a, b) == FrN(BMul(FrVal(a), FrVal(b)))
FrSquare(a) == FrMul(a, a)

\* Fr::from(1 << 32).square()
TwoPow64 == FrSquare(FrFrom(Shl(BOne, 32)))

\* BigUint::to_u64_digits: the 64-bit digits, least significant first; none for zero
RECURSIVE to_u64_digits(_)
to_u64_digits(x) ==
    IF Len(x) = 0 THEN <<>>
    ELSE IF Len(x) <= 8 THEN <<x>>
    ELSE <<BNorm(SubSeq(x, 1, 8))>> \o to_u64_digits(SubSeq(x, 9, Len(x)))

\* the fold of big_uint_to_fr over digits given most significant first
RECURSIVE fold_digits(_, _)
fold_digits(a, ds) ==
    IF Len(ds) = 0 THEN a
    ELSE fold_digits(FrAdd(FrMul(a, TwoPow64), FrFrom(ds[1])), Tail(ds))

\* big_uint_to_fr without the reversal: digits folded least significant first
big_uint_to_fr_no_rev(i) == fold_digits(FrZero, to_u64_digits(i))

\* big_uint_to_fr (types.rs 792-799)
big_uint_to_fr(i) == fold_digits(FrZero, Rev(to_u64_digits(i)))

---------------------------------------------------------------------------
(* The numeric functions applied to sample inputs *)

MaxDigits == 3

\* 0, 1, 2^8, 2^32 and 2^64 - 1
U64Samples ==
    { BZero, BOne, <<0, 1>>, Shl(BOne, 32), [i \in 1 .. 8 |-> 255] }

RECURSIVE DigitSeqs(_)
DigitSeqs(n) ==
    IF n = 0 THEN {<<>>}
    ELSE DigitSeqs(n - 1) \cup
         {<<d>> \o ds : d \in U64Samples, ds \in {x \in DigitSeqs(n - 1) : Len(x) = n - 1}}

\* sum of ds[k] * 2^(w * (k - 1)) for digits below 2^w, w a whole number of bytes
RECURSIVE FromDigits(_, _)
FromDigits(ds, w) ==
    IF Len(ds) = 0 THEN <<>>
    ELSE BNorm(LeBytes(ds[1], w \div 8) \o FromDigits(Tail(ds), w))

\* the integers of at most MaxDigits 64-bit digits, below 2^248
BigUints == {x \in {FromDigits(ds, 64) : ds \in DigitSeqs(MaxDigits)} : Len(x) < 32}

InitNum ==
    /\ TableIdle
    /\ probe = IdleProbe
    /\ verdict = <<>>
    /\ ClaimIdle
    /\ num \in {[fn |-> "input", arg |-> x, out |-> <<>>] : x \in BigUints}
    /\ mpt = <<>>

UnchangedButNum ==
    UNCHANGED <<entries, rows, tstate, table, probe, verdict, trace, reqType, claim, proof, checked, mpt>>

ApplyBigUintToFr ==
    /\ num.fn = "input"
    /\ num' = [fn |-> "big_uint_to_fr", arg |-> num.arg, out |-> big_uint_to_fr(num.arg)]
    /\ UnchangedButNum

NextNum == ApplyBigUintToFr

SpecNum == InitNum /\ [][NextNum]_vars

\* C10 (multiplier 2^128): big_uint_to_fr folds the 64-bit digits most significant
\* first with acc = acc * 2^128 + digit
C10_FoldsBy2Pow128 ==
    num.fn = "big_uint_to_fr" =>
        num.out = FrN(FromDigits(to_u64_digits(num.arg), 128))

\* C10 (multiplier 2^64): big_uint_to_fr folds the 64-bit digits most significant first
\* with acc = acc * 2^64 + digit, i.e. the element is the sum of
\* digit_k * 2^(64 k)
C10_FoldsBy2Pow64 ==
    num.fn = "big_uint_to_fr" =>
        num.out = FrN(FromDigits(to_u64_digits(num.arg), 64))

\* an integer of three digits 2^64 - 1, 1, 2^32 has been embedded
C10_Witness ==
    /\ num.fn = "big_uint_to_fr"
    /\ Len(to_u64_digits(num.arg)) = 3
    /\ to_u64_digits(num.arg)[1] = [i \in 1 .. 8 |-> 255]
    /\ to_u64_digits(num.arg)[3] = Shl(BOne, 32)

---------------------------------------------------------------------------
(* Claims about the loaded table *)

\* C1: after load, every non-padding row has exactly one proof-type selector
\* equal to 1, and that selector's index plus one is the row's proof_type
C1_OneHotAfterLoad ==
    tstate = "loaded" =>
        \A r \in 1 .. Len(entries) :
            /\ Cardinality(ActiveSels(table[r])) = 1
            /\ \A i \in ActiveSels(table[r]) : table[r].proof_type = i

\* the old (side 1) or new (side 2) value of the field a proof type is about
ChangedValue(pt, op, side) ==
    LET acc == IF side = 1 THEN op.account_before ELSE op.account_after
        st == IF side = 1 THEN op.store_before ELSE op.store_after
    IN  CASE pt = NonceChanged -> acc_field_or_default(acc, "nonce")
          [] pt = BalanceChanged -> acc_field_or_default(acc, "balance")
          [] pt = CodeHashExists -> u8_rlc(acc_codehash_or_default(acc), Randomness)
          [] pt = StorageChanged -> u8_rlc(unwrap_or_default_kv(st), Randomness)
          [] OTHER -> 0

\* C3: a row built by from_op for proof type T and assigned by load has
\* proof_type = the code of T, address = the op's address, storage_key = the
\* RLC of the storage key, old_root / new_root = the op's account root before
\* / after, old_value / new_value = the old / new value of the changed field,
\* and the selector of T (and no other) set
C3_RowCarriesOp ==
    tstate = "loaded" =>
        \A r \in 1 .. Len(entries) : \A pt \in MPTProofType, op \in Ops :
            entries[r] = from_op(pt, op, Randomness) =>
                /\ table[r].proof_type = pt
                /\ table[r].address = op.address
                /\ table[r].storage_key = u8_rlc(unwrap_or_default_kv(op.store_key), Randomness)
                /\ table[r].old_root = op.account_root_before
                /\ table[r].new_root = op.account_root
                /\ table[r].old_value = ChangedValue(pt, op, 1)
                /\ table[r].new_value = ChangedValue(pt, op, 2)
                /\ ActiveSels(table[r]) = {pt}

---------------------------------------------------------------------------
(* The witness model (types.rs): keys, bits and the account hash chain     *)

\* the digest of a hash output that stands for its byte pattern
RECURSIVE FrWeight(_)
FrWeight(f) ==
    IF IsFrN(f) THEN SumSeq(FrVal(f)) % 251
    ELSE (3 * FrWeight(f[1]) + 5 * FrWeight(f[2]) + 1) % 251

\* Fr::to_bytes: the 32 little-endian bytes of the canonical value
to_bytes(f) ==
    IF IsFrN(f) THEN LeBytes(FrVal(f), 32) ELSE LeBytes(BNorm(<<FrWeight(f)>>), 32)

RECURSIVE Pow2(_)
Pow2(n) == IF n = 0 THEN 1 ELSE 2 * Pow2(n - 1)

\* Bit for Fr (types.rs 814-822), for i below 256; index 0 of a Rust slice is index 1 here
bit(f, i) ==
    LET bytes == Rev(to_bytes(f))
        byte == bytes[(31 - i \div 8) + 1]
    IN  (byte \div Pow2(i % 8)) % 2 = 1

\* a - b on usize, as Some(result) or None for an abort: a build with overflow
\* checks aborts when b > a, a build without them wraps around to
\* a - b + 2^64, which the negative result stands for
usize_sub(a, b, overflow_checks) ==
    IF b > a /\ overflow_checks THEN None ELSE Some(a - b)

\* Bit for Fr (types.rs 814-822) for every index, as Some(result) or None for
\* an abort: bytes.get(31 - i / 8) is None outside 0..31
bit_at(f, i, overflow_checks) ==
    LET index == usize_sub(31, i \div 8, overflow_checks)
    IN  IF IsNone(index) THEN None
        ELSE IF Unwrap(index) \in 0 .. 31 THEN Some(bit(f, i))
        ELSE Some(FALSE)

\* the largest index bit is asked for
MaxBitIndex == 264

\* canonical field values: the sample integers and 2^253
FrSamples == BigUints \cup {Shl(<<32>>, 248)}

InitBit ==
    /\ TableIdle
    /\ probe = IdleProbe
    /\ verdict = <<>>
    /\ ClaimIdle
    /\ num \in {[fn |-> "fr", arg |-> x, out |-> <<>>] : x \in FrSamples}
    /\ mpt = <<>>

\* one call of bit, in a build with or without overflow checks
ApplyBit ==
    /\ num.fn = "fr"
    /\ \E i \in 0 .. MaxBitIndex, overflow_checks \in BOOLEAN :
          num' = [fn |-> "bit", arg |-> <<num.arg, i>>,
                  out |-> bit_at(FrN(num.arg), i, overflow_checks)]
    /\ UNCHANGED <<entries, rows, tstate, table, probe, verdict, trace, reqType, claim, proof, checked, mpt>>

NextBit == ApplyBit

SpecBit == InitBit /\ [][NextBit]_vars

\* u128::from_be_bytes / u32::from_be_bytes
from_be_bytes(bytes) == BNorm(Rev(bytes))

\* account_key (types.rs 760-768): the address is its 20 big-endian bytes
account_key(address) ==
    LET high_bytes == SubSeq(address, 1, 16)
        low_bytes == SubSeq(address, 17, 20)
        address_high == FrFrom(from_be_bytes(high_bytes))
        address_low == FrFrom(Shl(from_be_bytes(low_bytes), 96))
    IN  hash(address_high, address_low)

\* Vec::resize(4, 0) of the digits
resize4(ds) == [k \in 1 .. 4 |-> IF k <= Len(ds) THEN ds[k] ELSE BZero]

\* hi_lo with the two halves exchanged
hi_lo_swapped(x) ==
    LET u64_digits == resize4(to_u64_digits(x))
    IN  << FrFrom(BAdd(Shl(u64_digits[2], 64), u64_digits[1])),
           FrFrom(BAdd(Shl(u64_digits[4], 64), u64_digits[3])) >>

\* hi_lo (types.rs 801-808)
hi_lo(x) ==
    LET u64_digits == resize4(to_u64_digits(x))
    IN  << FrFrom(BAdd(Shl(u64_digits[4], 64), u64_digits[3])),
           FrFrom(BAdd(Shl(u64_digits[2], 64), u64_digits[1])) >>

\* split_word reading the word's little-endian serialization
split_word_little_endian(x) ==
    LET bytes == LeBytes(x, 32)
        high_bytes == SubSeq(bytes, 1, 16)
        low_bytes == SubSeq(bytes, 17, 32)
    IN  <<FrFrom(from_be_bytes(high_bytes)), FrFrom(from_be_bytes(low_bytes))>>

\* split_word (types.rs 775-784) of a word below 2^256
split_word(x) ==
    LET bytes == Rev(LeBytes(x, 32))
        high_bytes == SubSeq(bytes, 1, 16)
        low_bytes == SubSeq(bytes, 17, 32)
    IN  <<FrFrom(from_be_bytes(high_bytes)), FrFrom(from_be_bytes(low_bytes))>>

\* the 256-bit words of four sample digits
Words == {FromDigits(ds, 64) : ds \in DigitSeqs(4)}

InitWord ==
    /\ TableIdle
    /\ probe = IdleProbe
    /\ verdict = <<>>
    /\ ClaimIdle
    /\ num \in {[fn |-> "word", arg |-> x, out |-> <<>>] : x \in Words}
    /\ mpt = <<>>

\* both splittings of a word into its 128-bit halves
ApplySplitWord ==
    /\ num.fn = "word"
    /\ num' = [fn |-> "split_word", arg |-> num.arg, out |-> split_word(num.arg)]
    /\ UnchangedButNum

ApplyHiLo ==
    /\ num.fn = "word"
    /\ num' = [fn |-> "hi_lo", arg |-> num.arg, out |-> hi_lo(num.arg)]
    /\ UnchangedButNum

NextWord == ApplySplitWord \/ ApplyHiLo

SpecWord == InitWord /\ [][NextWord]_vars

\* BigUint::to_bytes_be: the big-endian bytes, one zero byte for zero
to_bytes_be(x) == IF Len(x) = 0 THEN <<0>> ELSE Rev(x)

\* u256 (types.rs 748-750)
u256(x) == from_be_bytes(to_bytes_be(x))

AccountData(nonce, balance, code_hash, poseidon_code_hash, code_size) ==
    [ nonce |-> nonce, balance |-> balance, code_hash |-> code_hash,
      poseidon_code_hash |-> poseidon_code_hash, code_size |-> code_size ]

\* the word of nonce and code size with the multiplier left unsquared
nonce_and_codesize_unsquared(account) ==
    FrAdd(FrFrom(account.nonce), FrMul(FrFrom(account.code_size), FrFrom(Shl(BOne, 32))))

\* the word of nonce and code size with the nonce left out
nonce_and_codesize_no_nonce(account) ==
    FrMul(FrFrom(account.code_size), TwoPow64)

\* the left input of the third hash of account_hash_traces (types.rs 385-386)
nonce_and_codesize(account) ==
    FrAdd(FrFrom(account.nonce), FrMul(FrFrom(account.code_size), TwoPow64))

\* account_hash_traces (types.rs 377-411); the assertion against
\* Account::account_hash (line 408) is taken to pass
account_hash_traces(address, account, storage_root) ==
    LET codehash == hi_lo(account.code_hash)
        codehash_hi == codehash[1]
        codehash_lo == codehash[2]
        h1 == hash(codehash_hi, codehash_lo)
        h2 == hash(storage_root, h1)
        balance == big_uint_to_fr(account.balance)
        h3 == hash(nonce_and_codesize(account), balance)
        h4 == hash(h3, h2)
        key == account_key(address)
        h5 == hash(FrOne, key)
        poseidon_codehash == big_uint_to_fr(account.poseidon_code_hash)
        account_hash == hash(h4, poseidon_codehash)
    IN  << <<codehash_hi, codehash_lo, h1>>,
           <<storage_root, h1, h2>>,
           <<nonce_and_codesize(account), balance, h3>>,
           <<h3, h2, h4>>,
           <<h4, poseidon_codehash, account_hash>>,
           <<FrOne, key, h5>>,
           <<h5, account_hash, hash(h5, account_hash)>> >>

\* empty_account_hash_traces (types.rs 459-462)
empty_account_hash_traces == [i \in 1 .. 7 |-> <<FrZero, FrZero, FrZero>>]

SMTNode(value, sibling) == [value |-> value, sibling |-> sibling]

\* leaf_hash (types.rs 368-375)
leaf_hash(path) ==
    IF IsSome(path.leaf)
    THEN hash(hash(FrOne, Unwrap(path.leaf).sibling), Unwrap(path.leaf).value)
    ELSE FrZero

\* get_leaf (types.rs 361-366)
get_leaf(path) ==
    IF IsSome(path.leaf)
    THEN Some([key |-> Unwrap(path.leaf).sibling, value_hash |-> Unwrap(path.leaf).value])
    ELSE None

\* LeafNode::hash (types.rs 83-87)
LeafNode_hash(leaf) == hash(hash(FrOne, leaf.key), leaf.value_hash)

HashTrace(direction, open, close, sibling, is_padding_open, is_padding_close) ==
    [ direction |-> direction, open |-> open, close |-> close, sibling |-> sibling,
      is_padding_open |-> is_padding_open, is_padding_close |-> is_padding_close ]

Max(a, b) == IF a >= b THEN a ELSE b

\* the assert of get_internal_hash_traces (types.rs 427)
internal_siblings_agree(open_hash_traces, close_hash_traces) ==
    \A i \in 1 .. Len(open_hash_traces) :
        i <= Len(close_hash_traces) => open_hash_traces[i].sibling = close_hash_traces[i].sibling

\* get_internal_hash_traces padding a side with the leaf digest of the other side
get_internal_hash_traces_other_leaf(key, leaf_hashes, open_hash_traces, close_hash_traces) ==
    Rev([ k \in 1 .. Max(Len(open_hash_traces), Len(close_hash_traces)) |->
            IF k <= Len(open_hash_traces) /\ k <= Len(close_hash_traces)
            THEN HashTrace(bit(key, k - 1), open_hash_traces[k].value, close_hash_traces[k].value,
                           open_hash_traces[k].sibling, FALSE, FALSE)
            ELSE IF k <= Len(open_hash_traces)
            THEN HashTrace(bit(key, k - 1), open_hash_traces[k].value, leaf_hashes[1],
                           open_hash_traces[k].sibling, FALSE, TRUE)
            ELSE HashTrace(bit(key, k - 1), leaf_hashes[2], close_hash_traces[k].value,
                           close_hash_traces[k].sibling, TRUE, FALSE) ])

\* get_internal_hash_traces with the final reversal left out
get_internal_hash_traces_unreversed(key, leaf_hashes, open_hash_traces, close_hash_traces) ==
    [ k \in 1 .. Max(Len(open_hash_traces), Len(close_hash_traces)) |->
        IF k <= Len(open_hash_traces) /\ k <= Len(close_hash_traces)
        THEN HashTrace(bit(key, k - 1), open_hash_traces[k].value, close_hash_traces[k].value,
                       open_hash_traces[k].sibling, FALSE, FALSE)
        ELSE IF k <= Len(open_hash_traces)
        THEN HashTrace(bit(key, k - 1), open_hash_traces[k].value, leaf_hashes[2],
                       open_hash_traces[k].sibling, FALSE, TRUE)
        ELSE HashTrace(bit(key, k - 1), leaf_hashes[1], close_hash_traces[k].value,
                       close_hash_traces[k].sibling, TRUE, FALSE) ]

\* get_internal_hash_traces (types.rs 413-457), when its assert passes;
\* entry i of zip_longest (0-based) is index i + 1 here
get_internal_hash_traces(key, leaf_hashes, open_hash_traces, close_hash_traces) ==
    Rev([ k \in 1 .. Max(Len(open_hash_traces), Len(close_hash_traces)) |->
            IF k <= Len(open_hash_traces) /\ k <= Len(close_hash_traces)
            THEN HashTrace(bit(key, k - 1), open_hash_traces[k].value, close_hash_traces[k].value,
                           open_hash_traces[k].sibling, FALSE, FALSE)
            ELSE IF k <= Len(open_hash_traces)
            THEN HashTrace(bit(key, k - 1), open_hash_traces[k].value, leaf_hashes[2],
                           open_hash_traces[k].sibling, FALSE, TRUE)
            ELSE HashTrace(bit(key, k - 1), leaf_hashes[1], close_hash_traces[k].value,
                           close_hash_traces[k].sibling, TRUE, FALSE) ])

\* one step up the tree from a digest, its sibling and the direction
hash_up(direction, digest, sibling) ==
    IF direction THEN hash(sibling, digest) ELSE hash(digest, sibling)

\* check_hash_traces_new with the direction ignored
check_hash_traces_new_undirected(traces) ==
    \A i \in 1 .. Len(traces) - 1 :
        LET cur == traces[i]
            next == traces[i + 1]
        IN  /\ ~cur.is_padding_open =>
                  /\ next.is_padding_open = FALSE
                  /\ hash(cur.open, cur.sibling) = next.open
            /\ ~cur.is_padding_close =>
                  /\ next.is_padding_close = FALSE
                  /\ hash(cur.close, cur.sibling) = next.close

\* check_hash_traces_new (types.rs 664-704): TRUE when no assertion fails
check_hash_traces_new(traces) ==
    \A i \in 1 .. Len(traces) - 1 :
        LET cur == traces[i]
            next == traces[i + 1]
        IN  /\ ~cur.is_padding_open =>
                  /\ next.is_padding_open = FALSE
                  /\ hash_up(cur.direction, cur.open, cur.sibling) = next.open
            /\ ~cur.is_padding_close =>
                  /\ next.is_padding_close = FALSE
                  /\ hash_up(cur.direction, cur.close, cur.sibling) = next.close

---------------------------------------------------------------------------
(* ClaimKind::from and Claim::from (types.rs 152-252)                      *)

\* the proof types the claim model matches on (crate::MPTProofType)
ClaimProofTypes ==
    { "NonceChanged", "BalanceChanged", "CodeHashExists", "PoseidonCodeHashExists",
      "CodeSizeExists", "AccountDoesNotExist", "StorageChanged", "StorageDoesNotExist",
      "AccountDestructed" }

Kind(tag, key, old, new) == [tag |-> tag, key |-> key, old |-> old, new |-> new]

\* a panic (unimplemented!, unreachable!, a failed assert): no value is produced
KindAbort == Kind("abort", None, None, None)

\* the state_update arm letting every state update go on
state_update_passes_always(state_update) == TRUE

\* the state_update arm (types.rs 170-202): only [None, None] goes on
state_update_passes(state_update) ==
    IsSome(state_update) =>
        (IsNone(Unwrap(state_update)[1]) /\ IsNone(Unwrap(state_update)[2]))

\* the [None, Some(new)] arm (types.rs 206-222)
kind_of_creation(proof_type, new) ==
    IF ~is_zero(new.nonce)
    THEN IF proof_type = "NonceChanged"
         THEN Kind("Nonce", None, None, Some(new.nonce))
         ELSE KindAbort
    ELSE IF is_zero(new.balance)
         THEN IF proof_type = "BalanceChanged"
              THEN Kind("Balance", None, None, Some(u256(new.balance)))
              ELSE KindAbort
         ELSE KindAbort

\* the [Some(old), Some(new)] arm with the two nonces of a Nonce claim exchanged
kind_of_update_swapped(proof_type, old, new) ==
    CASE proof_type = "NonceChanged" ->
            Kind("Nonce", None, Some(new.nonce), Some(old.nonce))
      [] proof_type = "BalanceChanged" ->
            Kind("Balance", None, Some(u256(old.balance)), Some(u256(new.balance)))
      [] proof_type = "AccountDoesNotExist" ->
            Kind("IsEmpty", None, None, None)
      [] proof_type = "CodeHashExists" ->
            Kind("CodeHash", None, Some(u256(old.code_hash)), Some(u256(new.code_hash)))
      [] proof_type = "CodeSizeExists" ->
            Kind("Nonce", None, Some(old.nonce), Some(new.nonce))
      [] proof_type = "PoseidonCodeHashExists" ->
            Kind("PoseidonCodeHash", None, Some(big_uint_to_fr(old.poseidon_code_hash)),
                 Some(big_uint_to_fr(new.poseidon_code_hash)))
      [] OTHER -> KindAbort

\* the [Some(old), Some(new)] arm (types.rs 223-248)
kind_of_update(proof_type, old, new) ==
    CASE proof_type = "NonceChanged" ->
            Kind("Nonce", None, Some(old.nonce), Some(new.nonce))
      [] proof_type = "BalanceChanged" ->
            Kind("Balance", None, Some(u256(old.balance)), Some(u256(new.balance)))
      [] proof_type = "AccountDoesNotExist" ->
            Kind("IsEmpty", None, None, None)
      [] proof_type = "CodeHashExists" ->
            Kind("CodeHash", None, Some(u256(old.code_hash)), Some(u256(new.code_hash)))
      [] proof_type = "CodeSizeExists" ->
            Kind("Nonce", None, Some(old.nonce), Some(new.nonce))
      [] proof_type = "PoseidonCodeHashExists" ->
            Kind("PoseidonCodeHash", None, Some(big_uint_to_fr(old.poseidon_code_hash)),
                 Some(big_uint_to_fr(new.poseidon_code_hash)))
      [] OTHER -> KindAbort

\* ClaimKind::from (types.rs 165-252)
ClaimKind_from(proof_type, t) ==
    LET account_old == t.account_update[1]
        account_new == t.account_update[2]
    IN  IF ~state_update_passes(t.state_update) THEN KindAbort
        ELSE CASE IsNone(account_old) /\ IsNone(account_new) ->
                    Kind("IsEmpty", None, None, None)
               [] IsNone(account_old) /\ IsSome(account_new) ->
                    kind_of_creation(proof_type, Unwrap(account_new))
               [] IsSome(account_old) /\ IsSome(account_new) ->
                    kind_of_update(proof_type, Unwrap(account_old), Unwrap(account_new))
               [] OTHER -> KindAbort

\* Claim::from with the two roots exchanged
Claim_from_roots_swapped(proof_type, t) ==
    [ old_root |-> t.account_path[2].root,
      new_root |-> t.account_path[1].root,
      address |-> t.address,
      kind |-> ClaimKind_from(proof_type, t) ]

\* Claim::from (types.rs 152-163)
Claim_from(proof_type, t) ==
    [ old_root |-> t.account_path[1].root,
      new_root |-> t.account_path[2].root,
      address |-> t.address,
      kind |-> ClaimKind_from(proof_type, t) ]

Aborted(c) == c.kind.tag = "abort"

---------------------------------------------------------------------------
(* Proof::from (types.rs 254-358)                                          *)

SMTPath(root, leaf, path, path_part) ==
    [root |-> root, leaf |-> leaf, path |-> path, path_part |-> path_part]

\* bits (types.rs 732-742): the low `len` bits of x, most significant first
bits(x, len) == [k \in 1 .. len |-> (x \div Pow2(len - k)) % 2 = 1]

\* the fold of path_root (types.rs 719-727) over the nodes taken leaf-ward first:
\* <<every recorded value matched, the final digest>>
RECURSIVE path_fold(_, _, _, _)
path_fold(digest, directions, nodes, ok) ==
    IF Len(nodes) = 0 \/ Len(directions) = 0 THEN <<ok, digest>>
    ELSE path_fold(hash_up(directions[1], digest, nodes[1].sibling),
                   Tail(directions), Tail(nodes), ok /\ digest = nodes[1].value)

\* path_root (types.rs 706-730): TRUE when none of its assertions fails;
\* SMTPathParse::try_from and its hash traces are taken to pass
path_root_ok(path) ==
    LET account_hash == leaf_hash(path)
        directions == bits(path.path_part, Len(path.path))
        folded == path_fold(account_hash, directions, Rev(path.path), TRUE)
    IN  folded[1] /\ folded[2] = path.root

\* the value path_root returns
path_root(path) == path.root

\* storage_key_hash (types.rs 770-773) of a key given as its (high, low) halves
storage_key_hash(key) == hash(FrFrom(key[1]), FrFrom(key[2]))

\* the Path of one side (types.rs 325-340)
Path_of(path, address) ==
    LET key == IF IsSome(path.leaf) THEN Unwrap(path.leaf).sibling ELSE account_key(address)
    IN  [ key |-> key,
          key_hash |-> hash(FrOne, key),
          leaf_data_hash |-> IF IsSome(path.leaf) THEN Some(Unwrap(path.leaf).value) ELSE None ]

\* EthAccount::from (types.rs 122-132)
EthAccount_from(account_data) ==
    [ nonce |-> account_data.nonce,
      code_size |-> account_data.code_size,
      poseidon_codehash |-> FrZero,
      balance |-> FrZero,
      keccak_codehash |-> BZero ]

\* which arm of the storage match is taken (types.rs 263-305)
storage_arm(t) ==
    CASE /\ IsSome(t.common_state_root) /\ IsNone(t.state_key)
         /\ IsNone(t.state_path[1]) /\ IsNone(t.state_path[2])
         /\ (IsNone(t.state_update) \/ state_update_passes(t.state_update)) -> "common"
      [] /\ IsNone(t.common_state_root) /\ IsSome(t.state_key)
         /\ IsSome(t.state_path[1]) /\ IsSome(t.state_path[2])
         /\ IsSome(t.state_update) -> "paths"
      [] OTHER -> "unreachable"

old_new_account_hash_traces(address, account, storage_root) ==
    IF IsNone(account) THEN empty_account_hash_traces
    ELSE account_hash_traces(address, Unwrap(account), storage_root)

\* TRUE when Proof::from panics: in Claim::from, in the storage match, in
\* path_root or in the sibling assert of get_internal_hash_traces
Proof_from_aborts(proof_type, t) ==
    \/ Aborted(Claim_from(proof_type, t))
    \/ storage_arm(t) = "unreachable"
    \/ /\ storage_arm(t) = "paths"
       /\ \/ ~path_root_ok(Unwrap(t.state_path[1]))
          \/ ~path_root_ok(Unwrap(t.state_path[2]))
          \/ ~internal_siblings_agree(Unwrap(t.state_path[1]).path, Unwrap(t.state_path[2]).path)
    \/ ~internal_siblings_agree(t.account_path[1].path, t.account_path[2].path)

\* Proof::from (types.rs 254-358), when it does not panic
Proof_from(proof_type, t) ==
    LET c == Claim_from(proof_type, t)
        arm == storage_arm(t)
        old_storage_root == IF arm = "common" THEN Unwrap(t.common_state_root)
                            ELSE path_root(Unwrap(t.state_path[1]))
        new_storage_root == IF arm = "common" THEN Unwrap(t.common_state_root)
                            ELSE path_root(Unwrap(t.state_path[2]))
        storage_hash_traces ==
            IF arm = "common" THEN None
            ELSE Some(get_internal_hash_traces(
                     Unwrap(t.state_key),
                     <<leaf_hash(Unwrap(t.state_path[1])), leaf_hash(Unwrap(t.state_path[2]))>>,
                     Unwrap(t.state_path[1]).path, Unwrap(t.state_path[2]).path))
        key == account_key(c.address)
    IN  [ claim |-> c,
          address_hash_traces |->
              get_internal_hash_traces(key,
                  <<leaf_hash(t.account_path[1]), leaf_hash(t.account_path[2])>>,
                  t.account_path[1].path, t.account_path[2].path),
          leafs |-> <<get_leaf(t.account_path[1]), get_leaf(t.account_path[2])>>,
          old_account_hash_traces |->
              old_new_account_hash_traces(c.address, t.account_update[1], old_storage_root),
          new_account_hash_traces |->
              old_new_account_hash_traces(c.address, t.account_update[2], new_storage_root),
          storage_hash_traces |-> storage_hash_traces,
          storage_key_value_hash_traces |-> None,
          old |-> Path_of(t.account_path[1], c.address),
          new |-> Path_of(t.account_path[2], c.address),
          old_account |-> IF IsSome(t.account_update[1])
                          THEN Some(EthAccount_from(Unwrap(t.account_update[1]))) ELSE None,
          new_account |-> IF IsSome(t.account_update[2])
                          THEN Some(EthAccount_from(Unwrap(t.account_update[2]))) ELSE None ]

---------------------------------------------------------------------------
(* Proof::check (types.rs 537-644): the outcome of each group of assertions *)

\* directions match account key (types.rs 541-548)
check_directions(traces, key) ==
    \A i \in 0 .. Len(traces) - 1 :
        traces[i + 1].direction = bit(key, Len(traces) - i - 1)

\* the roots assertions with the new root left unchecked
check_roots_old_only(traces, old_root, new_root) ==
    /\ Len(traces) > 0
    /\ LET last == traces[Len(traces)]
       IN  hash_up(last.direction, last.open, last.sibling) = old_root

\* old and new roots are correct (types.rs 550-563)
check_roots(traces, old_root, new_root) ==
    /\ Len(traces) > 0
    /\ LET last == traces[Len(traces)]
       IN  /\ hash_up(last.direction, last.open, last.sibling) = old_root
           /\ hash_up(last.direction, last.close, last.sibling) = new_root

\* the first entry against the account chains (types.rs 567-575)
check_first_entry(p) ==
    /\ Len(p.address_hash_traces) > 0
    /\ p.old_account_hash_traces[6][3] = p.address_hash_traces[1].open
    /\ p.new_account_hash_traces[6][3] = p.address_hash_traces[1].close

\* the leaf of one side against that side's account chain (types.rs 581-594)
check_leaf(leaf, account_traces) ==
    /\ IsSome(leaf)
    /\ hash(hash(FrOne, Unwrap(leaf).key), Unwrap(leaf).value_hash) = account_traces[6][3]

\* the storage assertions (types.rs 596-643); the claim model produces no
\* Storage or IsEmpty(Some) kind, so the storage directions are never compared
check_storage(p) ==
    IsSome(p.storage_hash_traces) =>
        LET st == Unwrap(p.storage_hash_traces)
        IN  /\ check_hash_traces_new(st)
            /\ Len(st) > 0 =>
                  /\ hash_up(st[Len(st)].direction, st[Len(st)].open, st[Len(st)].sibling)
                        = p.old_account_hash_traces[2][2]
                  /\ hash_up(st[Len(st)].direction, st[Len(st)].close, st[Len(st)].sibling)
                        = p.new_account_hash_traces[2][2]

\* Proof::check: the assertions in the order they are made
Proof_check(p) ==
    [ hash_traces |-> check_hash_traces_new(p.address_hash_traces),
      directions |-> check_directions(p.address_hash_traces, account_key(p.claim.address)),
      roots |-> check_roots(p.address_hash_traces, p.claim.old_root, p.claim.new_root),
      first_entry |-> check_first_entry(p),
      leaf_old |-> check_leaf(p.leafs[1], p.old_account_hash_traces),
      leaf_new |-> check_leaf(p.leafs[2], p.new_account_hash_traces),
      storage |-> check_storage(p) ]

\* check returns without a panic
CheckPasses(c) ==
    /\ c.hash_traces
    /\ c.directions
    /\ c.roots
    /\ c.first_entry
    /\ c.leaf_old
    /\ c.leaf_new
    /\ c.storage

---------------------------------------------------------------------------
(* The traces handed to the witness model                                  *)

\* the 20 big-endian bytes of an address: high 16 bytes = 1, low 4 bytes = 2
AddressA == [i \in 1 .. 20 |-> IF i = 16 THEN 1 ELSE IF i = 20 THEN 2 ELSE 0]

U64Max == [i \in 1 .. 8 |-> 255]
Balance100 == <<100>>
CodeHashX == <<9>> \o [i \in 1 .. 16 |-> 0] \o <<7>>
PoseidonX == <<5>>

\* the account snapshots: nonce in {0, 1, 2^64 - 1}, code size in {0, 2^64 - 1},
\* balance in {0, 100}
AccountSamples ==
    { AccountData(n, b, CodeHashX, PoseidonX, c) :
        n \in {BZero, BOne, U64Max}, b \in {BZero, Balance100}, c \in {BZero, U64Max} }

BaseAccount == AccountData(BOne, Balance100, CodeHashX, PoseidonX, BZero)

\* the sibling recorded at level j of a path
Sib(j) == FrN(<<200 + j>>)

RootS0 == FrN(<<77>>)
WrongValue == FrN(<<99>>)

\* the value recorded at node j (1-based, root-ward first) of a path of the
\* given depth over a leaf digest: the digest of the subtree below it
RECURSIVE NodeValue(_, _, _, _)
NodeValue(j, depth, leaf_digest, key) ==
    IF j >= depth THEN leaf_digest
    ELSE hash_up(bit(key, j), NodeValue(j + 1, depth, leaf_digest, key), Sib(j + 1))

RECURSIVE PathPart(_, _)
PathPart(key, depth) ==
    IF depth = 0 THEN 0
    ELSE PathPart(key, depth - 1) + (IF bit(key, depth - 1) THEN Pow2(depth - 1) ELSE 0)

\* a path of the given depth whose recorded values and root follow from its leaf
MkPath(leaf, depth, key) ==
    LET proto == SMTPath(FrZero, leaf, <<>>, 0)
        leaf_digest == leaf_hash(proto)
    IN  SMTPath(IF depth = 0 THEN leaf_digest
                ELSE hash_up(bit(key, 0), NodeValue(1, depth, leaf_digest, key), Sib(1)),
                leaf,
                [j \in 1 .. depth |-> SMTNode(NodeValue(j, depth, leaf_digest, key), Sib(j))],
                PathPart(key, depth))

\* the leaf recorded for an account: its key and the hash of its fields (the
\* output of the fifth row of its chain), or a value that is not that hash
AccountLeaf(address, account, storage_root, wrong) ==
    IF IsNone(account) THEN None
    ELSE Some(SMTNode(IF wrong THEN WrongValue
                      ELSE account_hash_traces(address, Unwrap(account), storage_root)[5][3],
                      account_key(address)))

SMTTrace(address, account_path, account_update, state_path, common_state_root, state_key, state_update) ==
    [ address |-> address,
      account_key |-> account_key(address),
      account_path |-> account_path,
      account_update |-> account_update,
      state_path |-> state_path,
      common_state_root |-> common_state_root,
      state_key |-> state_key,
      state_update |-> state_update ]

\* a trace of an account update without storage access
AccountTrace(old, new, d_old, d_new, wrong, state_update) ==
    SMTTrace(AddressA,
             << MkPath(AccountLeaf(AddressA, old, RootS0, wrong), d_old, account_key(AddressA)),
                MkPath(AccountLeaf(AddressA, new, RootS0, wrong), d_new, account_key(AddressA)) >>,
             <<old, new>>, <<None, None>>, Some(RootS0), None, state_update)

AccountTraces ==
    { AccountTrace(old, new, d_old, d_new, wrong, su) :
        old \in {None, Some(BaseAccount)},
        new \in {None} \cup {Some(a) : a \in AccountSamples},
        d_old \in 0 .. MaxDepth, d_new \in 0 .. MaxDepth,
        wrong \in BOOLEAN,
        su \in {None, Some(<<None, None>>)} }
    \cup
    { AccountTrace(Some(BaseAccount),
                   Some(AccountData(BOne, Balance100, <<8>>, <<6>>, BZero)), 1, 1, FALSE, None) }

StorageKeyK == <<<<3>>, <<5>>>>
StateData(key, value) == [key |-> key, value |-> value]

\* the leaf of a storage slot: its key hash and the hash of its value
StorageLeaf(value) ==
    IF IsNone(value) THEN None
    ELSE Some(SMTNode(hash(FrFrom(BZero), FrFrom(Unwrap(value))), storage_key_hash(StorageKeyK)))

\* a trace of a storage access at key K: the slot's value before and after,
\* the account's fields unchanged
StorageTrace(old_value, new_value, state_update) ==
    LET open == MkPath(StorageLeaf(old_value), 1, storage_key_hash(StorageKeyK))
        close == MkPath(StorageLeaf(new_value), 1, storage_key_hash(StorageKeyK))
    IN  SMTTrace(AddressA,
                 << MkPath(AccountLeaf(AddressA, Some(BaseAccount), open.root, FALSE), 1,
                           account_key(AddressA)),
                    MkPath(AccountLeaf(AddressA, Some(BaseAccount), close.root, FALSE), 1,
                           account_key(AddressA)) >>,
                 <<Some(BaseAccount), Some(BaseAccount)>>,
                 <<Some(open), Some(close)>>, None, Some(storage_key_hash(StorageKeyK)),
                 state_update)

StorageTraces ==
    { StorageTrace(Some(<<1>>), Some(<<10>>),
                   Some(<<Some(StateData(StorageKeyK, <<1>>)), Some(StateData(StorageKeyK, <<10>>))>>)),
      StorageTrace(None, Some(<<10>>),
                   Some(<<None, Some(StateData(StorageKeyK, <<10>>))>>)),
      StorageTrace(Some(<<1>>), None,
                   Some(<<Some(StateData(StorageKeyK, <<1>>)), None>>)),
      StorageTrace(None, None, Some(<<None, None>>)),
      StorageTrace(None, None, None) }

\* traces whose recorded paths do not hang together: a recorded root, node
\* value or sibling of an account path or of a storage path replaced
CorruptTraces ==
    LET a == AccountTrace(Some(BaseAccount), Some(BaseAccount), MaxDepth, MaxDepth, FALSE, None)
        s == StorageTrace(None, None, Some(<<None, None>>))
        other == FrN(<<250>>)
    IN  { [a EXCEPT !.account_path[1].root = WrongValue],
          [a EXCEPT !.account_path[2].root = WrongValue],
          [a EXCEPT !.account_path[1].path[1].value = WrongValue],
          [a EXCEPT !.account_path[2].path[1].value = WrongValue],
          [a EXCEPT !.account_path[1].path[MaxDepth].value = WrongValue],
          [a EXCEPT !.account_path[2].path[MaxDepth].value = WrongValue],
          [a EXCEPT !.account_path[2].path[1].sibling = other],
          [a EXCEPT !.account_path[1].path[MaxDepth].sibling = other],
          [s EXCEPT !.state_path[1][1].root = WrongValue],
          [s EXCEPT !.state_path[2][1].path[1].value = WrongValue],
          [s EXCEPT !.state_path[2][1].path[1].sibling = other] }

Traces == AccountTraces \cup StorageTraces \cup CorruptTraces

---------------------------------------------------------------------------
(* The witness model at work: classify a trace, build its proof, check it  *)

InitClaim ==
    /\ TableIdle
    /\ probe = IdleProbe
    /\ verdict = <<>>
    /\ trace \in Traces
    /\ reqType \in ClaimProofTypes
    /\ claim = <<>>
    /\ proof = <<>>
    /\ checked = <<>>
    /\ num = <<>>
    /\ mpt = <<>>

UnchangedTable == UNCHANGED <<entries, rows, tstate, table, probe, verdict, num, mpt>>

\* Claim::from((&proof_type, &trace))
ClaimFrom ==
    /\ claim = <<>>
    /\ claim' = Claim_from(reqType, trace)
    /\ UNCHANGED <<trace, reqType, proof, checked>>
    /\ UnchangedTable

\* Proof::from((proof_type, trace)), which builds the claim first
ProofFrom ==
    /\ proof = <<>>
    /\ claim' = Claim_from(reqType, trace)
    /\ proof' = IF Proof_from_aborts(reqType, trace)
                THEN [aborted |-> TRUE]
                ELSE [aborted |-> FALSE] @@ Proof_from(reqType, trace)
    /\ UNCHANGED <<trace, reqType, checked>>
    /\ UnchangedTable

Built == proof # <<>> /\ ~proof.aborted

\* Proof::check
Check ==
    /\ Built
    /\ checked = <<>>
    /\ checked' = Proof_check(proof)
    /\ UNCHANGED <<trace, reqType, claim, proof>>
    /\ UnchangedTable

\* old_account_leaf_hashes with h4 read from the wrong column
old_account_leaf_hashes_wrong_column(p) ==
    IF IsSome(p.claim.kind.old)
    THEN LET old_account_hash_traces == p.old_account_hash_traces
         IN  Some(<< old_account_hash_traces[7][2], old_account_hash_traces[5][2],
                     old_account_hash_traces[4][1], old_account_hash_traces[3][1] >>)
    ELSE None

\* Proof::old_account_leaf_hashes (types.rs 486-500) of a Nonce claim; row i,
\* column j of the source is row i + 1, column j + 1 here
old_account_leaf_hashes(p) ==
    IF IsSome(p.claim.kind.old)
    THEN LET old_account_hash_traces == p.old_account_hash_traces
         IN  Some(<< old_account_hash_traces[7][2], old_account_hash_traces[5][1],
                     old_account_hash_traces[4][1], old_account_hash_traces[3][1] >>)
    ELSE None

\* Proof::new_account_leaf_hashes (types.rs 502-514) of a Nonce claim
new_account_leaf_hashes(p) ==
    IF IsSome(p.claim.kind.new)
    THEN LET new_account_hash_traces == p.new_account_hash_traces
         IN  Some(<< new_account_hash_traces[7][2], new_account_hash_traces[5][1],
                     new_account_hash_traces[4][1], new_account_hash_traces[3][1] >>)
    ELSE None

\* Proof::account_leaf_siblings (types.rs 516-533) of a Nonce claim; None
\* stands for the unimplemented! of (None, None)
account_leaf_siblings(p) ==
    IF IsNone(p.claim.kind.old) /\ IsNone(p.claim.kind.new) THEN None
    ELSE LET traces == IF IsSome(p.claim.kind.old) THEN p.old_account_hash_traces
                       ELSE p.new_account_hash_traces
         IN  Some(<<traces[6][3], traces[5][2], traces[4][2], traces[3][2]>>)

\* the three readers called on a built proof; they abort (unimplemented!)
\* unless the claim is a Nonce claim
ReadLeafHashes ==
    /\ Built
    /\ verdict = <<>>
    /\ verdict' = IF proof.claim.kind.tag = "Nonce"
                  THEN [ aborted |-> FALSE,
                         old |-> old_account_leaf_hashes(proof),
                         new |-> new_account_leaf_hashes(proof),
                         siblings |-> account_leaf_siblings(proof) ]
                  ELSE [aborted |-> TRUE]
    /\ UNCHANGED <<entries, rows, tstate, table, probe, num, mpt>>
    /\ UNCHANGED <<trace, reqType, claim, proof, checked>>

NextClaim == ClaimFrom \/ ProofFrom \/ Check \/ ReadLeafHashes

SpecClaim == InitClaim /\ [][NextClaim]_vars

---------------------------------------------------------------------------
(* Claims about the witness model *)

Claimed == claim # <<>>
Checked == checked # <<>>

\* the proof types the state table has a code and a selector column for
\* (mpt_table.rs 52-61)
TableProofTypes ==
    { "NonceChanged", "BalanceChanged", "CodeHashExists", "AccountDoesNotExist",
      "AccountDestructed", "StorageChanged", "StorageDoesNotExist" }

TableCode(name) ==
    CASE name = "NonceChanged" -> NonceChanged
      [] name = "BalanceChanged" -> BalanceChanged
      [] name = "CodeHashExists" -> CodeHashExists
      [] name = "AccountDoesNotExist" -> AccountDoesNotExist
      [] name = "AccountDestructed" -> AccountDestructed
      [] name = "StorageChanged" -> StorageChanged
      [] name = "StorageDoesNotExist" -> StorageDoesNotExist

BothPresent ==
    IsSome(trace.account_update[1]) /\ IsSome(trace.account_update[2])

\* C5: every proof kind the claim model accepts has a proof-type code and a
\* selector column of its own in the table
C5_AcceptedKindHasSelector ==
    (Claimed /\ BothPresent /\ ~Aborted(claim)) =>
        /\ reqType \in TableProofTypes
        /\ TableCode(reqType) \in 1 .. NumProofSel

\* C6: with no account before and an account after (and no storage update)
\* the claim is Nonce{None, nonce} when the new nonce is nonzero, otherwise
\* Balance{None, balance} when the new balance is nonzero, otherwise the
\* classification fails; the requested proof type is the one classified
C6_CreationClassification ==
    (/\ Claimed
     /\ IsNone(trace.account_update[1])
     /\ IsSome(trace.account_update[2])
     /\ IsNone(trace.state_update)) =>
        LET new == Unwrap(trace.account_update[2])
        IN  /\ (~is_zero(new.nonce) /\ reqType = "NonceChanged") =>
                  claim.kind = Kind("Nonce", None, None, Some(new.nonce))
            /\ (is_zero(new.nonce) /\ ~is_zero(new.balance) /\ reqType = "BalanceChanged") =>
                  claim.kind = Kind("Balance", None, None, Some(new.balance))
            /\ (is_zero(new.nonce) /\ is_zero(new.balance)) => Aborted(claim)

IsStorageWrite ==
    /\ IsSome(trace.state_update)
    /\ IsSome(Unwrap(trace.state_update)[1])
    /\ IsSome(Unwrap(trace.state_update)[2])

\* C7: for a storage-write trace (key K with an old and a new value in the
\* state-update section) the claim is Storage{K, old, new}
C7_StorageWriteClaim ==
    (Claimed /\ IsStorageWrite) =>
        claim.kind = Kind("Storage",
                          Some(Unwrap(Unwrap(trace.state_update)[1]).key),
                          Some(Unwrap(Unwrap(trace.state_update)[1]).value),
                          Some(Unwrap(Unwrap(trace.state_update)[2]).value))

\* the leaf digest recorded in the path of one side agrees with the output
\* of the seventh row of that side's account chain
LeafAgrees(leaf, account_traces) ==
    IsSome(leaf) /\ LeafNode_hash(Unwrap(leaf)) = account_traces[7][3]

LeavesPresent == IsSome(proof.leafs[1]) /\ IsSome(proof.leafs[2])

\* C8: check faults whenever the step-7 output of a side disagrees with the
\* leaf digest H(H(1, key), valueHash) recorded for that side, and passes
\* when the two agree on both sides (its other assertions holding)
C8_CheckFaultsIffLeafDisagrees ==
    (Checked /\ LeavesPresent) =>
        LET agree == /\ LeafAgrees(proof.leafs[1], proof.old_account_hash_traces)
                     /\ LeafAgrees(proof.leafs[2], proof.new_account_hash_traces)
        IN  /\ ~agree => ~CheckPasses(checked)
            /\ (/\ agree
                /\ checked.hash_traces
                /\ checked.directions
                /\ checked.roots
                /\ checked.storage) => CheckPasses(checked)

\* both sides of a built proof whose account is present
PresentSides == {side \in {1, 2} : IsSome(trace.account_update[side])}
ChainOf(side) ==
    IF side = 1 THEN proof.old_account_hash_traces ELSE proof.new_account_hash_traces

\* C9 (multiplier 2^128): the left input of step 3 is nonce + codeSize * 2^128 and
\* the right input is the balance embedded in the field
C9_Step3LeftBy2Pow128 ==
    Built =>
        \A side \in PresentSides :
            LET a == Unwrap(trace.account_update[side])
            IN  /\ ChainOf(side)[3][1] = FrN(FromDigits(<<a.nonce, a.code_size>>, 128))
                /\ ChainOf(side)[3][2] = FrN(a.balance)

\* C9 (multiplier 2^64): the left input of step 3 is nonce + codeSize * 2^64 and the
\* right input is the balance embedded in the field
C9_Step3LeftBy2Pow64 ==
    Built =>
        \A side \in PresentSides :
            LET a == Unwrap(trace.account_update[side])
            IN  /\ ChainOf(side)[3][1] = FrN(FromDigits(<<a.nonce, a.code_size>>, 64))
                /\ ChainOf(side)[3][2] = FrN(a.balance)

\* a proof was built for an account with nonce 2^64 - 1, code size 2^64 - 1
\* and balance 100
C9_Witness ==
    /\ Built
    /\ IsSome(trace.account_update[2])
    /\ Unwrap(trace.account_update[2]).nonce = U64Max
    /\ Unwrap(trace.account_update[2]).code_size = U64Max
    /\ Unwrap(trace.account_update[2]).balance = Balance100

---------------------------------------------------------------------------
(* The account hash chain of a built proof                                 *)

\* the storage root of one side of the trace
StorageRootOf(side) ==
    IF IsSome(trace.common_state_root) THEN Unwrap(trace.common_state_root)
    ELSE Unwrap(trace.state_path[side]).root

\* the 128-bit halves of a value below 2^256, read off its 32 bytes
High128(x) == FrN(BNorm(SubSeq(LeBytes(x, 32), 17, 32)))
Low128(x) == FrN(BNorm(SubSeq(LeBytes(x, 32), 1, 16)))

\* H(address high 128 bits, address low 32 bits << 96), the address being
\* its 20 big-endian bytes
KeyOfAddress(address) ==
    <<FrN(BNorm(Rev(SubSeq(address, 1, 16)))),
      FrN(BNorm([i \in 1 .. 12 |-> 0] \o Rev(SubSeq(address, 17, 20))))>>

\* every output of the chain is the hash of its row's inputs
RowsHashed(c) == \A r \in 1 .. 7 : c[r][3] = <<c[r][1], c[r][2]>>

\* the wiring of the seven rows for an account and a storage root
RowsWired(c, a, storage_root, address) ==
    /\ c[1][1] = High128(a.code_hash) /\ c[1][2] = Low128(a.code_hash)
    /\ c[2][1] = storage_root /\ c[2][2] = c[1][3]
    /\ c[3][1] = FrN(FromDigits(<<a.nonce, a.code_size>>, 64))
    /\ c[3][2] = FrN(a.balance)
    /\ c[4][1] = c[3][3] /\ c[4][2] = c[2][3]
    /\ c[5][1] = c[4][3] /\ c[5][2] = FrN(a.poseidon_code_hash)
    /\ c[6][1] = FrN(<<1>>) /\ c[6][2] = KeyOfAddress(address)
    /\ c[7][1] = c[6][3] /\ c[7][2] = c[5][3]

\* C11: account_hash_traces returns seven (left, right, output) rows, every
\* output the hash of its row's inputs, wired as (codehashHi, codehashLo),
\* (storageRoot, out1), (nonce/codeSize word, balance), (out3, out2),
\* (out4, poseidonCodehash), (1, accountKey), (out6, out5)
C11_ChainRowsWired ==
    Built =>
        \A side \in PresentSides :
            /\ Len(ChainOf(side)) = 7
            /\ RowsHashed(ChainOf(side))
            /\ RowsWired(ChainOf(side), Unwrap(trace.account_update[side]),
                         StorageRootOf(side), trace.address)

\* a proof built over a storage path, with the account present on both sides
C11_Witness ==
    /\ Built
    /\ PresentSides = {1, 2}
    /\ IsNone(trace.common_state_root)
    /\ proof.old_account_hash_traces[7][3] # FrZero

\* the two snapshots of the trace differ in the nonce and in nothing else,
\* over one storage root
NonceOnlyChange ==
    /\ PresentSides = {1, 2}
    /\ LET old == Unwrap(trace.account_update[1])
           new == Unwrap(trace.account_update[2])
       IN  /\ old.nonce # new.nonce
           /\ old.balance = new.balance
           /\ old.code_hash = new.code_hash
           /\ old.poseidon_code_hash = new.poseidon_code_hash
           /\ old.code_size = new.code_size
    /\ StorageRootOf(1) = StorageRootOf(2)

\* C12: when the snapshots differ only in the nonce, the old and the new
\* chain differ in the output of step 3 and of steps 4, 5 and 7 (the leaf
\* digests are distinct), and steps 1, 2 and 6 are the same on both sides
C12_NonceChangePropagates ==
    (Built /\ NonceOnlyChange) =>
        /\ \A r \in {3, 4, 5, 7} :
              proof.old_account_hash_traces[r][3] # proof.new_account_hash_traces[r][3]
        /\ \A r \in {1, 2, 6} :
              proof.old_account_hash_traces[r] = proof.new_account_hash_traces[r]

\* a proof built for nonce 1 -> 2^64 - 1 with every other field unchanged
C12_Witness ==
    /\ Built
    /\ NonceOnlyChange
    /\ Unwrap(trace.account_update[1]).nonce = BOne
    /\ Unwrap(trace.account_update[2]).nonce = U64Max

---------------------------------------------------------------------------
(* The internal hash traces of a built proof                               *)

\* the entries of the list whose open digest is the digest of the open
\* path's leaf itself: the leaf-adjacent level of the open path
LeafAdjacent ==
    {i \in 1 .. Len(proof.address_hash_traces) :
        /\ ~proof.address_hash_traces[i].is_padding_open
        /\ proof.address_hash_traces[i].open = leaf_hash(trace.account_path[1])}

\* the entries of the list whose open digest hashes to the old root: the
\* root-adjacent level
RootAdjacent ==
    {i \in 1 .. Len(proof.address_hash_traces) :
        LET e == proof.address_hash_traces[i]
        IN  (IF e.direction THEN <<e.sibling, e.open>> ELSE <<e.open, e.sibling>>)
                = trace.account_path[1].root}

\* entry i (from 0) of the list carries bit n - 1 - i of the key, and the
\* directions decoded from the path_part of either path are those key bits
DirectionsAreKeyBits ==
    LET t == proof.address_hash_traces
        n == Len(t)
        key == account_key(trace.address)
    IN  /\ \A i \in 0 .. n - 1 : t[i + 1].direction = bit(key, n - 1 - i)
        /\ \A side \in {1, 2} :
              LET m == Len(trace.account_path[side].path)
                  ds == bits(trace.account_path[side].path_part, m)
              IN  \A i \in 0 .. m - 1 : ds[i + 1] = bit(key, m - 1 - i)

\* what Proof::check accepts has these directions
CheckedDirections ==
    (Checked /\ checked.directions) =>
        \A i \in 0 .. Len(proof.address_hash_traces) - 1 :
            proof.address_hash_traces[i + 1].direction
                = bit(account_key(trace.address), Len(proof.address_hash_traces) - 1 - i)

OpenStepHashes(t, i) ==
    t[i + 1].open = (IF t[i].direction THEN <<t[i].sibling, t[i].open>>
                     ELSE <<t[i].open, t[i].sibling>>)
CloseStepHashes(t, i) ==
    t[i + 1].close = (IF t[i].direction THEN <<t[i].sibling, t[i].close>>
                      ELSE <<t[i].close, t[i].sibling>>)

\* C14: check_hash_traces_new accepts a list only if every transition from an
\* entry not padded on a side satisfies the hash equality of that side in the
\* order its direction gives, and a transition from an entry padded on a side
\* demands no hash equality of that side
C14_HashTracesAccepted ==
    Checked =>
        LET t == proof.address_hash_traces
        IN  /\ checked.hash_traces =>
                  \A i \in 1 .. Len(t) - 1 :
                      /\ ~t[i].is_padding_open => OpenStepHashes(t, i)
                      /\ ~t[i].is_padding_close => CloseStepHashes(t, i)
            /\ (\A i \in 1 .. Len(t) - 1 :
                    /\ ~t[i].is_padding_open =>
                          (OpenStepHashes(t, i) /\ ~t[i + 1].is_padding_open)
                    /\ ~t[i].is_padding_close =>
                          (CloseStepHashes(t, i) /\ ~t[i + 1].is_padding_close))
                  => checked.hash_traces

\* an accepted list with a transition from an entry padded on the open side
\* whose open hash equality fails
C14_Witness ==
    /\ Checked
    /\ checked.hash_traces
    /\ \E i \in 1 .. Len(proof.address_hash_traces) - 1 :
          /\ proof.address_hash_traces[i].is_padding_open
          /\ ~proof.address_hash_traces[i].is_padding_close
          /\ ~OpenStepHashes(proof.address_hash_traces, i)

\* the digest one level up from a digest, hashed with the sibling on the
\* side the direction gives
Up(direction, digest, sibling) ==
    IF direction THEN <<sibling, digest>> ELSE <<digest, sibling>>

\* the digest of the subtree below level j of a path (level 1 is the
\* root-adjacent one), folded up from the digest of its leaf along the bits of
\* its path_part; level j hangs on bit j - 1
RECURSIVE FoldedAt(_, _)
FoldedAt(p, j) ==
    IF j >= Len(p.path)
    THEN (IF IsSome(p.leaf)
          THEN <<<<FrN(<<1>>), Unwrap(p.leaf).sibling>>, Unwrap(p.leaf).value>>
          ELSE FrN(<<>>))
    ELSE Up((p.path_part \div Pow2(j)) % 2 = 1, FoldedAt(p, j + 1), p.path[j + 1].sibling)

\* folding the leaf digest up the path gives every recorded value and the root
PathFolds(p) ==
    /\ \A j \in 1 .. Len(p.path) : FoldedAt(p, j) = p.path[j].value
    /\ (IF Len(p.path) = 0 THEN FoldedAt(p, 0)
        ELSE Up(p.path_part % 2 = 1, FoldedAt(p, 1), p.path[1].sibling)) = p.root

\* the last entry of the list hashes to the two roots of the claim
LastEntryGivesRoots ==
    LET t == proof.address_hash_traces
    IN  /\ Len(t) > 0
        /\ Up(t[Len(t)].direction, t[Len(t)].open, t[Len(t)].sibling) = proof.claim.old_root
        /\ Up(t[Len(t)].direction, t[Len(t)].close, t[Len(t)].sibling) = proof.claim.new_root

\* C15: Proof::check passes only if the last entry's open digest hashed with
\* its sibling in the order of its direction gives claim.old_root and its
\* close digest gives claim.new_root; path_root returns only when folding the
\* leaf digest up the path gives every recorded node value and the recorded
\* root; a proof with an empty account-path trace list is rejected
C15_RootsReproduced ==
    /\ Checked =>
          /\ checked.roots <=> LastEntryGivesRoots
          /\ CheckPasses(checked) => LastEntryGivesRoots
          /\ Len(proof.address_hash_traces) = 0 => ~CheckPasses(checked)
    /\ (Built /\ IsNone(trace.common_state_root)) =>
          /\ PathFolds(Unwrap(trace.state_path[1]))
          /\ PathFolds(Unwrap(trace.state_path[2]))

\* a checked proof over storage paths of one level whose roots assertions hold
C15_Witness ==
    /\ Checked
    /\ checked.roots
    /\ IsNone(trace.common_state_root)
    /\ Len(Unwrap(trace.state_path[1]).path) = 1
    /\ Len(proof.address_hash_traces) > 0

\* the digest of the leaf a path ends in
TerminalLeafDigest(p) == FoldedAt(p, Len(p.path))

\* the entry of the root-ward list for level k of the paths (level 1 is the
\* root-adjacent one)
EntryOfLevel(k) ==
    proof.address_hash_traces[Len(proof.address_hash_traces) - k + 1]

\* C16: get_internal_hash_traces returns one entry per level up to the longer
\* path; at a level of both paths the siblings are equal (or it aborts) and
\* the entry is (direction, openValue, closeValue, sibling, false, false); at
\* a level of one path only the digest of the side without an entry is that
\* side's terminal leaf digest and exactly that side's padding flag is set
C16_InternalEntries ==
    LET open == trace.account_path[1]
        close == trace.account_path[2]
        both == {k \in 1 .. Len(open.path) : k <= Len(close.path)}
    IN  /\ (proof # <<>> /\ \E k \in both : open.path[k].sibling # close.path[k].sibling)
              => proof.aborted
        /\ Built =>
              /\ Len(proof.address_hash_traces)
                    = IF Len(open.path) >= Len(close.path) THEN Len(open.path)
                      ELSE Len(close.path)
              /\ \A k \in 1 .. Len(proof.address_hash_traces) :
                    LET e == EntryOfLevel(k)
                    IN  /\ e.direction = bit(account_key(trace.address), k - 1)
                        /\ k \in both =>
                              /\ e.open = open.path[k].value
                              /\ e.close = close.path[k].value
                              /\ e.sibling = open.path[k].sibling
                              /\ e.sibling = close.path[k].sibling
                              /\ ~e.is_padding_open /\ ~e.is_padding_close
                        /\ k > Len(close.path) =>
                              /\ e.open = open.path[k].value
                              /\ e.close = TerminalLeafDigest(close)
                              /\ e.sibling = open.path[k].sibling
                              /\ ~e.is_padding_open /\ e.is_padding_close
                        /\ k > Len(open.path) =>
                              /\ e.open = TerminalLeafDigest(open)
                              /\ e.close = close.path[k].value
                              /\ e.sibling = close.path[k].sibling
                              /\ e.is_padding_open /\ ~e.is_padding_close

\* a proof built over an open path of one level and a close path of two,
\* with different leaves on the two sides
C16_Witness ==
    /\ Built
    /\ Len(trace.account_path[1].path) = 1
    /\ Len(trace.account_path[2].path) = 2
    /\ IsSome(trace.account_path[1].leaf)
    /\ IsSome(trace.account_path[2].leaf)
    /\ TerminalLeafDigest(trace.account_path[1]) # TerminalLeafDigest(trace.account_path[2])
    /\ EntryOfLevel(2).is_padding_open

---------------------------------------------------------------------------
(* The classification of a trace                                           *)

\* the state-update section holds no value
NoStorageUpdate ==
    \/ trace.state_update = <<>>
    \/ trace.state_update = <<<< <<>>, <<>> >>>>

\* a claim kind without key whose old and new are both present
OldNew(tag, old, new) == [tag |-> tag, key |-> <<>>, old |-> <<old>>, new |-> <<new>>]

\* IsEmpty(None)
IsEmptyNone == [tag |-> "IsEmpty", key |-> <<>>, old |-> <<>>, new |-> <<>>]

\* C17: with both snapshots present and no storage update the claim kind is
\* fixed by the requested proof type: NonceChanged, BalanceChanged,
\* CodeHashExists and PoseidonCodeHashExists give Nonce, Balance, CodeHash and
\* PoseidonCodeHash with old from the snapshot before and new from the
\* snapshot after, AccountDoesNotExist gives IsEmpty(None), and
\* CodeSizeExists gives a Nonce claim carrying the two nonces
C17_UpdateClassification ==
    (Claimed /\ BothPresent /\ NoStorageUpdate) =>
        LET old == Unwrap(trace.account_update[1])
            new == Unwrap(trace.account_update[2])
        IN  /\ reqType = "NonceChanged" => claim.kind = OldNew("Nonce", old.nonce, new.nonce)
            /\ reqType = "BalanceChanged" =>
                  claim.kind = OldNew("Balance", old.balance, new.balance)
            /\ reqType = "CodeHashExists" =>
                  claim.kind = OldNew("CodeHash", old.code_hash, new.code_hash)
            /\ reqType = "PoseidonCodeHashExists" =>
                  claim.kind = OldNew("PoseidonCodeHash", FrN(old.poseidon_code_hash),
                                      FrN(new.poseidon_code_hash))
            /\ reqType = "AccountDoesNotExist" => claim.kind = IsEmptyNone
            /\ reqType = "CodeSizeExists" => claim.kind = OldNew("Nonce", old.nonce, new.nonce)

\* a CodeSizeExists claim made for snapshots with nonce 1 and 2^64 - 1 and
\* code size 0 and 2^64 - 1
C17_Witness ==
    /\ Claimed
    /\ BothPresent
    /\ NoStorageUpdate
    /\ reqType = "CodeSizeExists"
    /\ claim.kind.tag = "Nonce"
    /\ Unwrap(trace.account_update[1]).nonce = BOne
    /\ Unwrap(trace.account_update[2]).nonce = U64Max
    /\ Unwrap(trace.account_update[2]).code_size = U64Max

BothAbsent ==
    IsNone(trace.account_update[1]) /\ IsNone(trace.account_update[2])

\* C18: with no account before and none after, and no storage update, the
\* claim kind is IsEmpty(None) whatever proof type is requested, and the
\* claim carries the roots of the trace's two account paths as old and new
C18_AbsentClassification ==
    (Claimed /\ BothAbsent /\ NoStorageUpdate) =>
        /\ claim.kind = IsEmptyNone
        /\ claim.old_root = trace.account_path[1].root
        /\ claim.new_root = trace.account_path[2].root

\* an IsEmpty(None) claim made for a request of StorageChanged over two
\* account paths with different roots
C18_Witness ==
    /\ Claimed
    /\ BothAbsent
    /\ NoStorageUpdate
    /\ reqType = "StorageChanged"
    /\ claim.kind = IsEmptyNone
    /\ trace.account_path[1].root # trace.account_path[2].root

\* the state-update section has a value before or after
StorageUpdateHasValue ==
    /\ trace.state_update # <<>>
    /\ \/ trace.state_update[1][1] # <<>>
       \/ trace.state_update[1][2] # <<>>

PresentThenAbsent ==
    IsSome(trace.account_update[1]) /\ IsNone(trace.account_update[2])

\* C19: classification aborts and produces no claim when the account is
\* present before and absent after, when both snapshots are present and the
\* request is StorageChanged, StorageDoesNotExist or AccountDestructed, or when
\* the state-update section has a value on either side; no claim and no
\* proof stands in for the failure
C19_UnsupportedAborts ==
    (\/ PresentThenAbsent
     \/ BothPresent /\ reqType \in {"StorageChanged", "StorageDoesNotExist", "AccountDestructed"}
     \/ StorageUpdateHasValue) =>
        /\ Claimed => claim.kind = [tag |-> "abort", key |-> <<>>, old |-> <<>>, new |-> <<>>]
        /\ proof # <<>> => proof.aborted

\* classification has aborted on a trace whose state-update section has a
\* value after and none before, the request being NonceChanged
C19_Witness ==
    /\ Claimed
    /\ proof # <<>>
    /\ proof.aborted
    /\ Aborted(claim)
    /\ StorageUpdateHasValue
    /\ trace.state_update[1][1] = <<>>
    /\ reqType = "NonceChanged"

---------------------------------------------------------------------------
(* The row budget of the table                                             *)

\* C20: load aborts when there are more entries than rows, before any cell
\* of the table is assigned; whenever load has assigned cells there are at
\* most as many entries as rows
C20_RowBudget ==
    /\ tstate = "aborted" => (Len(entries) > rows /\ table = <<>>)
    /\ tstate = "loaded" => (Len(entries) <= rows /\ Len(table) = rows)
    /\ table # <<>> => Len(entries) <= rows

\* load has aborted on two entries for a table of one row
C20_Witness ==
    /\ tstate = "aborted"
    /\ Len(entries) = 2
    /\ rows = 1
    /\ table = <<>>

---------------------------------------------------------------------------
(* The rows of a loaded table                                              *)

\* every cell of a row is zero and its selector is off
RowAllZero(row) ==
    /\ row.sel = 0
    /\ \A i \in 1 .. 7 : row.proof_sel[i] = 0
    /\ row.address = 0 /\ row.storage_key = 0 /\ row.proof_type = 0
    /\ row.new_root = 0 /\ row.old_root = 0
    /\ row.new_value = 0 /\ row.old_value = 0
    /\ \A pair \in {row.storage_key_2, row.new_value_2, row.old_value_2} :
          pair.rep_hi = 0 /\ pair.rep_lo = 0
    /\ \A limbs \in {row.key_rep, row.new_val_rep, row.old_val_rep} :
          Len(limbs) = 32 /\ \A i \in 1 .. 32 : limbs[i] = 0

\* the rows of the table past the entries
PaddingRows == {r \in 1 .. Len(table) : r > Len(entries)}

\* C21: after load every row from entries.len() up to rows - 1 is zero in
\* every proof-type selector, base column, hi/lo cell and byte limb, has the
\* row selector off and satisfies every gate of the table
C21_PaddingRowsZero ==
    tstate = "loaded" =>
        /\ Len(table) = rows
        /\ \A r \in PaddingRows :
              /\ RowAllZero(table[r])
              /\ GatesHold(gates(table[r], Randomness))

\* a table of two rows loaded with one entry
C21_Witness ==
    /\ tstate = "loaded"
    /\ Len(entries) = 1
    /\ rows = 2
    /\ PaddingRows = {2}

---------------------------------------------------------------------------
(* The lookups of bind_mpt_circuit into the Merkle sub-circuit.  A row of  *)
(* the sub-circuit has the columns gadget_id, ctrl_id, address_index,      *)
(* root_index, old_value, new_value, key and proof_type; a lookup is a     *)
(* list of pairs <<input of the table row, cell of the sub-circuit>>.      *)

\* HashType::Empty as u64
HashTypeEmpty == 1

\* the row Rotation::prev() reads from row j of n rows (rows wrap around)
rotation_prev(j, n) == IF j = 1 THEN n ELSE j - 1

build_entry_lookup_common(row, m, j, control_pair) ==
    << <<control_pair[1], m[j].gadget_id>>,
       <<control_pair[2], m[j].ctrl_id>>,
       <<row.address, m[j].address_index>>,
       <<row.old_root, m[j].root_index[1]>>,
       <<row.new_root, m[j].root_index[2]>> >>

build_entry_lookup_value(row, m, j) ==
    << <<row.old_value, m[j].old_value[1]>>,
       <<row.new_value, m[j].new_value[1]>> >>

build_entry_lookup_rep_value(row, m, j) ==
    << <<row.old_value_2.rep_hi, m[j].old_value[1]>>,
       <<row.old_value_2.rep_lo, m[j].old_value[2]>>,
       <<row.new_value_2.rep_hi, m[j].new_value[1]>>,
       <<row.new_value_2.rep_lo, m[j].new_value[2]>> >>

build_entry_lookup_account_key(row, m, j) == << <<1, m[j].proof_type>> >>

build_entry_lookup_storage_key(row, m, j) ==
    << <<row.storage_key_2.rep_hi, m[j].key[1]>>,
       <<row.storage_key_2.rep_lo, m[j].key[2]>> >>

\* a not-exist lookup without the pair on the previous row
build_entry_lookup_not_exist_dropped(row, m, j) == << >>

build_entry_lookup_not_exist(row, m, j) ==
    << <<HashTypeEmpty, m[rotation_prev(j, Len(m))].ctrl_id>> >>

\* the seven lookups, in the order of their selectors proof_sel[0..6],
\* before the multiplication of the inputs by the selector
entry_lookups(row, m, j) ==
    << build_entry_lookup_common(row, m, j, <<3, 0>>)
         \o build_entry_lookup_value(row, m, j)
         \o build_entry_lookup_account_key(row, m, j),
       build_entry_lookup_common(row, m, j, <<3, 1>>)
         \o build_entry_lookup_value(row, m, j)
         \o build_entry_lookup_account_key(row, m, j),
       build_entry_lookup_common(row, m, j, <<3, 2>>)
         \o build_entry_lookup_rep_value(row, m, j)
         \o build_entry_lookup_account_key(row, m, j),
       build_entry_lookup_common(row, m, j, <<3, 0>>)
         \o build_entry_lookup_not_exist(row, m, j),
       build_entry_lookup_common(row, m, j, <<3, 2>>),
       build_entry_lookup_common(row, m, j, <<4, 0>>)
         \o build_entry_lookup_rep_value(row, m, j)
         \o build_entry_lookup_storage_key(row, m, j),
       build_entry_lookup_common(row, m, j, <<4, 0>>)
         \o build_entry_lookup_storage_key(row, m, j)
         \o build_entry_lookup_not_exist(row, m, j) >>

\* the rows of the sub-circuit that lookup i (1-based) of the table row matches:
\* every input, multiplied by s_enable = proof_sel[i - 1], equals its cell
lookup_matches(row, m, i) ==
    { j \in 1 .. Len(m) :
        LET pairs == entry_lookups(row, m, j)[i]
        IN  \A p \in 1 .. Len(pairs) : pairs[p][1] * row.proof_sel[i] = pairs[p][2] }

\* meta.lookup_any: the inputs are found in some row
lookup_any(row, m, i) == lookup_matches(row, m, i) # {}

(* The rows the lookups are evaluated on *)

\* the most cells of a sub-circuit row that differ from what the table row asks
MaxFlips == 2

\* an enabled table row of proof type k whose cells are pairwise different
LookupRow(k) ==
    [ load_flush_row EXCEPT
        !.sel = 1, !.proof_sel = [i \in 1 .. NumProofSel |-> IF i = k THEN 1 ELSE 0],
        !.proof_type = k, !.address = AddrA, !.storage_key = 7,
        !.old_root = RootR0, !.new_root = RootR1, !.old_value = 5, !.new_value = 6,
        !.storage_key_2 = [rep_hi |-> 15, rep_lo |-> 16],
        !.old_value_2 = [rep_hi |-> 11, rep_lo |-> 12],
        !.new_value_2 = [rep_hi |-> 13, rep_lo |-> 14] ]

MptFields ==
    {"gadget_id", "ctrl_id", "address_index", "old_root", "new_root", "old_hi", "old_lo",
     "new_hi", "new_lo", "key_hi", "key_lo", "proof_type"}

\* the kinds whose values the sub-circuit holds as hi/lo pairs
RepKinds == {CodeHashExists, StorageChanged, StorageDoesNotExist}

\* the sub-circuit row of an operation of kind k on the cells of LookupRow(k),
\* with the cells named in `flips` holding another value
MptRow(k, flips) ==
    LET row == LookupRow(k)
        c(f, v) == IF f \in flips THEN 99 ELSE v
        old == IF k \in RepKinds THEN <<row.old_value_2.rep_hi, row.old_value_2.rep_lo>>
                                 ELSE <<row.old_value, 0>>
        new == IF k \in RepKinds THEN <<row.new_value_2.rep_hi, row.new_value_2.rep_lo>>
                                 ELSE <<row.new_value, 0>>
    IN  [ gadget_id |-> c("gadget_id", IF k >= StorageChanged THEN 4 ELSE 3),
          ctrl_id |-> c("ctrl_id", CASE k = BalanceChanged -> 1
                                     [] k \in {CodeHashExists, AccountDestructed} -> 2
                                     [] OTHER -> 0),
          address_index |-> c("address_index", row.address),
          root_index |-> <<c("old_root", row.old_root), c("new_root", row.new_root)>>,
          old_value |-> <<c("old_hi", old[1]), c("old_lo", old[2])>>,
          new_value |-> <<c("new_hi", new[1]), c("new_lo", new[2])>>,
          key |-> <<c("key_hi", row.storage_key_2.rep_hi), c("key_lo", row.storage_key_2.rep_lo)>>,
          proof_type |-> c("proof_type", 1) ]

\* the sub-circuit row before an operation: its control tag only
MptPrevRow(ctrl) ==
    [ gadget_id |-> 0, ctrl_id |-> ctrl, address_index |-> 0, root_index |-> <<0, 0>>,
      old_value |-> <<0, 0>>, new_value |-> <<0, 0>>, key |-> <<0, 0>>, proof_type |-> 0 ]

LookupInputs ==
    { <<LookupRow(k), <<MptPrevRow(ctrl), MptRow(k, flips)>> >> :
        k \in 1 .. NumProofSel,
        ctrl \in {0, HashTypeEmpty},
        flips \in {fs \in SUBSET MptFields : Cardinality(fs) <= MaxFlips} }

InitLookup ==
    /\ TableIdle
    /\ \E input \in LookupInputs : probe = input[1] /\ mpt = input[2]
    /\ verdict = <<>>
    /\ ClaimIdle
    /\ num = <<>>

\* every lookup of the table is evaluated on the row
VerifyLookups ==
    /\ verdict = <<>>
    /\ verdict' = [i \in 1 .. NumProofSel |-> lookup_any(probe, mpt, i)]
    /\ UNCHANGED <<entries, rows, tstate, table, probe, trace, reqType, claim, proof, checked, num, mpt>>

NextLookup == VerifyLookups

SpecLookup == InitLookup /\ [][NextLookup]_vars

\* the proof type whose selector is set in the looked-up row
ProbeKind == CHOOSE k \in 1 .. NumProofSel : probe.proof_sel[k] = 1

\* the lookup of the row's own kind was evaluated and is satisfied
LookedUp == verdict # <<>> /\ verdict[ProbeKind]

\* the sub-circuit with the control tag of its first row replaced
WithPrevCtrl(ctrl) == [mpt EXCEPT ![1].ctrl_id = ctrl]

\* C22: the lookups of AccountDoesNotExist and StorageDoesNotExist rows are
\* satisfied only by a sub-circuit row whose previous row carries the Empty
\* control tag; the lookup of every other kind gives the same answer whatever
\* the control tag of the previous row is.
C22_NotExistNeedsEmptyBefore ==
    verdict # <<>> =>
        /\ ProbeKind \in {AccountDoesNotExist, StorageDoesNotExist} =>
             \A j \in lookup_matches(probe, mpt, ProbeKind) :
                 mpt[rotation_prev(j, Len(mpt))].ctrl_id = HashTypeEmpty
        /\ ProbeKind \in {AccountDoesNotExist, StorageDoesNotExist} /\ verdict[ProbeKind] =>
             mpt[1].ctrl_id = HashTypeEmpty
        /\ ProbeKind \notin {AccountDoesNotExist, StorageDoesNotExist} =>
             \A ctrl \in {0, HashTypeEmpty} :
                 verdict[ProbeKind] = lookup_any(probe, WithPrevCtrl(ctrl), ProbeKind)

C22_Witness ==
    /\ LookedUp
    /\ ProbeKind = AccountDoesNotExist
    /\ mpt[1].ctrl_id = HashTypeEmpty
    /\ lookup_matches(probe, mpt, ProbeKind) = {2}

\* the sub-circuit row j holds the raw old and new value scalars of the row
ScalarsBound(j) ==
    /\ mpt[j].old_value[1] = probe.old_value
    /\ mpt[j].new_value[1] = probe.new_value

\* the sub-circuit row j holds the old and new value hi/lo pairs of the row
PairsBound(j) ==
    /\ mpt[j].old_value = <<probe.old_value_2.rep_hi, probe.old_value_2.rep_lo>>
    /\ mpt[j].new_value = <<probe.new_value_2.rep_hi, probe.new_value_2.rep_lo>>

\* the sub-circuit row j holds the storage-key hi/lo pair of the row
KeyBound(j) == mpt[j].key = <<probe.storage_key_2.rep_hi, probe.storage_key_2.rep_lo>>

ValueChangingKinds ==
    {NonceChanged, BalanceChanged, CodeHashExists, AccountDestructed, StorageChanged}

\* the lookup of kind k binds tag, index columns and values as described
LookupBinds(k, j) ==
    /\ mpt[j].gadget_id = (IF k \in {StorageChanged, StorageDoesNotExist} THEN 4 ELSE 3)
    /\ mpt[j].address_index = probe.address
    /\ mpt[j].root_index = <<probe.old_root, probe.new_root>>
    /\ ScalarsBound(j) \/ PairsBound(j) \/ KeyBound(j)
    /\ k \in ValueChangingKinds => ScalarsBound(j) \/ PairsBound(j)

\* C24: a satisfied lookup of any kind matches a sub-circuit row with that
\* kind's gadget id (3 for account kinds, 4 for storage kinds), the row's
\* address, old root and new root, and at least one of the raw value scalars,
\* the value hi/lo pairs or the storage-key pair; for Nonce, Balance, CodeHash,
\* AccountDestructed and Storage rows the old and new value are among them.
C24_LookupsBindValues ==
    LookedUp => \A j \in lookup_matches(probe, mpt, ProbeKind) : LookupBinds(ProbeKind, j)

\* C23: for every word x below 2^256, split_word(x) and hi_lo(x) are the same
\* pair (hi, lo) with hi and lo below 2^128 and hi * 2^128 + lo = x, hi being
\* the first 16 and lo the last 16 bytes of the big-endian serialization.
C23_SplitWordIsHiLo ==
    num # <<>> /\ num.fn \in {"split_word", "hi_lo"} =>
        /\ num.out = split_word(num.arg)
        /\ num.out = hi_lo(num.arg)
        /\ Len(FrVal(num.out[1])) <= 16
        /\ Len(FrVal(num.out[2])) <= 16
        /\ BAdd(Shl(FrVal(num.out[1]), 128), FrVal(num.out[2])) = num.arg
        /\ num.out = <<High128(num.arg), Low128(num.arg)>>

C23_Witness ==
    /\ num # <<>>
    /\ num.fn = "split_word"
    /\ Len(num.arg) = 32
    /\ num.out[1] # num.out[2]
    /\ num.out[2] # FrZero

---------------------------------------------------------------------------
(* The binding of the scalar columns to the byte limbs                      *)

\* the kinds whose storage key, and whose values, the gate ties to the limbs
KeyRepKinds == {StorageChanged, StorageDoesNotExist}
ValRepKinds == {CodeHashExists, StorageChanged, StorageDoesNotExist}

\* the verdict of the "bind reps" gate on the probed row with its three
\* scalar columns replaced
BindRepsWith(key, new, old) ==
    AllZero(bind_reps_gate([probe EXCEPT !.storage_key = key, !.new_value = new,
                                         !.old_value = old], Randomness))

\* C25: in an enabled row that satisfies the gate "bind reps", storage_key is
\* the RLC of the key limbs if the row is StorageChanged or StorageDoesNotExist,
\* new_value and old_value are the RLC of their limbs if the row is
\* CodeHashExists, StorageChanged or StorageDoesNotExist; for any other kind the
\* limbs' RLC is zero and the gate holds whatever the scalar column contains.
C25_BindRepsByKind ==
    (verdict # <<>> /\ probe.sel = 1 /\ verdict.bind_reps) =>
        /\ IF probe.proof_type \in KeyRepKinds
           THEN probe.storage_key = rlc(probe.key_rep, Randomness)
           ELSE /\ rlc(probe.key_rep, Randomness) = 0
                /\ \A v \in {0, 1, Randomness} :
                      BindRepsWith(v, probe.new_value, probe.old_value)
        /\ IF probe.proof_type \in ValRepKinds
           THEN /\ probe.new_value = rlc(probe.new_val_rep, Randomness)
                /\ probe.old_value = rlc(probe.old_val_rep, Randomness)
           ELSE /\ rlc(probe.new_val_rep, Randomness) = 0
                /\ rlc(probe.old_val_rep, Randomness) = 0
                /\ \A v, w \in {0, 1, Randomness} : BindRepsWith(probe.storage_key, v, w)

\* a CodeHashExists row passes the gate with values bound to non-zero limbs
\* and a storage key that is not the RLC of its (zero) limbs
C25_Witness ==
    /\ verdict # <<>> /\ probe.sel = 1 /\ verdict.bind_reps
    /\ probe.proof_type = CodeHashExists
    /\ probe.new_value = Randomness
    /\ probe.old_value = 1
    /\ probe.storage_key = 1

---------------------------------------------------------------------------
(* The representations load assigns                                         *)

\* the cells load assigns for one 256-bit value kv of an entry: the pair is
\* (limb_0, limb_1), the 32 limbs are bytes, the first 16 the little-endian
\* bytes of limb_0 and the next 16 those of limb_1 (bytes weighted by powers
\* of 256 from the first one up)
RepAssigned(kv, pair, limbs) ==
    /\ pair = [rep_hi |-> kv.limb_0, rep_lo |-> kv.limb_1]
    /\ Len(limbs) = 2 * NumLimbs
    /\ \A i \in 1 .. 2 * NumLimbs : limbs[i] \in 0 .. 255
    /\ rlc(SubSeq(limbs, 1, NumLimbs), 256) = pair.rep_hi
    /\ rlc(SubSeq(limbs, NumLimbs + 1, 2 * NumLimbs), 256) = pair.rep_lo

RepsAssigned(r) ==
    /\ RepAssigned(entries[r].storage_key, table[r].storage_key_2, table[r].key_rep)
    /\ RepAssigned(entries[r].new_value, table[r].new_value_2, table[r].new_val_rep)
    /\ RepAssigned(entries[r].old_value, table[r].old_value_2, table[r].old_val_rep)

\* C26: for storage key, new value and old value load assigns the (hi, lo)
\* pair and 32 byte limbs, the 16 little-endian bytes of the first half
\* followed by those of the second half, and the rows of the table's test
\* (pair (0, 10) with scalar 10, pair (0, 1) with scalar 1) satisfy the binding
\* of the scalar to the sum of limb_i * challenge^i.
C26_TestRowsBound ==
    tstate = "loaded" =>
        \A r \in 1 .. Len(entries) :
            /\ RepsAssigned(r)
            /\ entries[r] \in TestEntries =>
                 AllZero(bind_reps_gate(table[r], Randomness))

---------------------------------------------------------------------------
(* The bits of a field element                                              *)

\* bit i (least significant first) of an integer below 2^256
BitOfValue(x, i) == (LeBytes(x, 32)[i \div 8 + 1] \div Pow2(i % 8)) % 2 = 1

\* C27: Fr::bit(i) is bit i, least significant first, of the element's
\* canonical value for every i in 0..255, and false, without aborting, for
\* every i >= 256.
C27_BitOfCanonicalValue ==
    num # <<>> /\ num.fn = "bit" =>
        IF num.arg[2] <= 255
        THEN num.out = Some(BitOfValue(num.arg[1], num.arg[2]))
        ELSE num.out = Some(FALSE)

---------------------------------------------------------------------------
(* The padding of the internal hash traces                                  *)

\* the lists of a proof that get_internal_hash_traces returned
InternalLists ==
    {proof.address_hash_traces} \cup
        (IF IsSome(proof.storage_hash_traces) THEN {Unwrap(proof.storage_hash_traces)} ELSE {})

Padded(e) == e.is_padding_open \/ e.is_padding_close

\* no entry padded on both sides, padding on one side only in the whole list,
\* the padded entries a prefix of the list
PaddingShape(t) ==
    /\ \A i \in 1 .. Len(t) : ~(t[i].is_padding_open /\ t[i].is_padding_close)
    /\ \A i, j \in 1 .. Len(t) : ~(t[i].is_padding_open /\ t[j].is_padding_close)
    /\ \A i \in 1 .. Len(t) - 1 : Padded(t[i + 1]) => Padded(t[i])

\* what check_hash_traces_new asserts of the flags of consecutive entries
PaddingNeverResumes(t) ==
    \A i \in 1 .. Len(t) - 1 :
        /\ ~t[i].is_padding_open => ~t[i + 1].is_padding_open
        /\ ~t[i].is_padding_close => ~t[i + 1].is_padding_close

\* C28: in every list get_internal_hash_traces returns no entry has both
\* padding flags set, padding occurs on at most one side, and the padded
\* entries are a prefix of the list; so no entry unpadded on a side is followed
\* by an entry padded on that side.
C28_PaddingIsAPrefix ==
    Built => \A t \in InternalLists : PaddingShape(t) /\ PaddingNeverResumes(t)

\* a list of two entries: the first padded on the open side, the second unpadded
C28_Witness ==
    /\ Built
    /\ Len(proof.address_hash_traces) = 2
    /\ proof.address_hash_traces[1].is_padding_open
    /\ ~Padded(proof.address_hash_traces[2])

---------------------------------------------------------------------------
(* The accounts stored in a proof                                           *)

\* the EthAccount carries nonce and code size of the snapshot
SameCounters(eth, account_data) ==
    /\ eth.nonce = account_data.nonce
    /\ eth.code_size = account_data.code_size

\* the EthAccount carries balance and both code hashes of the snapshot
SameBalanceAndHashes(eth, account_data) ==
    /\ eth.balance = FrN(account_data.balance)
    /\ eth.keccak_codehash = account_data.code_hash
    /\ eth.poseidon_codehash = FrN(account_data.poseidon_code_hash)

\* the stored account of one side agrees with the snapshot of that side
StoredAccountAgrees(eth, snapshot) ==
    /\ IsNone(eth) <=> IsNone(snapshot)
    /\ IsSome(snapshot) =>
          /\ SameCounters(Unwrap(eth), Unwrap(snapshot))
          /\ SameBalanceAndHashes(Unwrap(eth), Unwrap(snapshot))

\* C29: the old and new EthAccount of a Proof carry the nonce, code size,
\* balance, keccak code hash and poseidon code hash of the trace's before and
\* after snapshot, and are absent exactly when the snapshot is absent.
C29_StoredAccountsAgree ==
    Built =>
        /\ StoredAccountAgrees(proof.old_account, trace.account_update[1])
        /\ StoredAccountAgrees(proof.new_account, trace.account_update[2])

---------------------------------------------------------------------------
(* The leaf hashes and siblings read from a proof                           *)

\* the readers have returned for the Nonce claim of the proof
LeafHashesRead == verdict # <<>> /\ ~verdict.aborted

\* with h the hash list and s the sibling list (first element is index 1
\* here), the hashes fold up to the digest of step 7 of the chain
FoldsToLeaf(h, s, chain) ==
    /\ <<h[4], s[4]>> = h[3]
    /\ <<h[3], s[3]>> = h[2]
    /\ <<h[2], s[2]>> = h[1]
    /\ <<s[1], h[1]>> = chain[7][3]

\* the siblings as they stand in one chain
SiblingsIn(chain) == <<chain[6][3], chain[5][2], chain[4][2], chain[3][2]>>

\* C30: for a Nonce claim whose snapshots differ only in the nonce, the hash
\* list h of either side and the sibling list s satisfy H(h[3], s[3]) = h[2],
\* H(h[2], s[2]) = h[1], H(h[1], s[1]) = h[0] and H(s[0], h[0]) = the digest of
\* step 7 of that side; s is the same read from the old or from the new chain;
\* a side whose value is absent has no hash list.
C30_LeafHashesFold ==
    LeafHashesRead =>
        /\ NonceOnlyChange =>
              /\ IsSome(verdict.old) /\ IsSome(verdict.new) /\ IsSome(verdict.siblings)
              /\ FoldsToLeaf(Unwrap(verdict.old), Unwrap(verdict.siblings),
                             proof.old_account_hash_traces)
              /\ FoldsToLeaf(Unwrap(verdict.new), Unwrap(verdict.siblings),
                             proof.new_account_hash_traces)
              /\ Unwrap(verdict.siblings) = SiblingsIn(proof.old_account_hash_traces)
              /\ Unwrap(verdict.siblings) = SiblingsIn(proof.new_account_hash_traces)
        /\ IsNone(proof.claim.kind.old) => IsNone(verdict.old)
        /\ IsNone(proof.claim.kind.new) => IsNone(verdict.new)

\* the lists were read from a proof whose snapshots differ only in the nonce
C30_Witness ==
    /\ LeafHashesRead
    /\ NonceOnlyChange
    /\ Unwrap(verdict.old)[4] # Unwrap(verdict.new)[4]
    /\ Unwrap(verdict.old)[1] # Unwrap(verdict.new)[1]

====
